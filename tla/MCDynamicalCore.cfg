SPECIFICATION Spec
CONSTANTS
  Configs <- MCConfigs
  Programs <- MCPrograms
  Interiors <- MCInteriors
  Updaters <- MCUpdaters
  Given <- MCGiven
  Results <- MCResults
INVARIANTS
  CarriedFieldsStayFresh
  ExchangesAreCurrent
  ExchangesEnd
  ResultsAreFresh
