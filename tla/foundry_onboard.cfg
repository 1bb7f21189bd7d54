SPECIFICATION FoundrySpec
CONSTANTS
  Onboarders = {o1, o2}
  Askers = {t1, t2}
  Offers <- MCOffers
  Companies <- MCCompanies
  Connected <- MCConnected
  NoAgent = NoAgent
  NoAnswers = NoAnswers
  EventLimit = 5
  MaxOnboardings = 2
  MaxAsks = 2
  MaxChanges = 2
  MaxFaults = 1
SYMMETRY Symmetry
CHECK_DEADLOCK FALSE
INVARIANTS
  FleetIsWhole
  LiveAgentsAreVetted
  StopwatchMeasuresOneOnboarding
