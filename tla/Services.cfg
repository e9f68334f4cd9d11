SPECIFICATION Spec
CONSTANTS
  Ids <- MCIds
  Replies <- MCReplies
  Items <- MCItems
  MaxItems = 2
  MaxNesting = 4
  ServiceUrls = {"docker", "file-manager", "metrics"}
INVARIANTS
  TypeOK
  RoutedToItself
  HandleCarriesSession
  
  AnswerReachesCaller
  PrintsNoSecret
  EventsAsSent

  
