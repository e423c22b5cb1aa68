SPECIFICATION Spec
CONSTANTS
  chess = chess
  robotics = robotics
  ghost = ghost
  math = math
  art = art
  eve = eve
  max = max
  None = None
  Events <- MCEvents
  StartTime <- MCStart
  EndTime <- MCEnd
  Text <- MCText
  NchsEvents = {"rally"}
  PersonalEvents = {"trip"}
  MaxNow = 1
  AllClubs = {chess, robotics, ghost}
  ExistingClubs = {chess, robotics}
  EventsOf <- MCEventsOf
  Clubs = {chess, ghost}
  Classes = {math, art}
  ExistingClasses = {math, art}
  Period <- MCPeriod
  Children = {eve, max}
  ExistingChildren = {eve}
  ClubsOf <- MCClubsOf
  nchs = nchs
  ann = ann
  bob = bob
  cyd = cyd
  School = nchs
  Categories = {"Popular", "Business", "Art"}
  First = "Popular"
  CategoryOf <- MCCategoryOf
  Queries = {"", "t", "ti", "tix"}
  Empty = ""
  ClubMatches <- MCClubMatches
  MaxSearches = 3
  Catalog <- MCCatalog
  ItemMatches <- MCItemMatches
  Visits <- MCSearching
  Skew <- MCSkew
  Images = {"cat", "dog"}
  MaxTexts = 1
  MaxMessages = 2
  Students = {ann, bob, cyd}
  Enrolled = {ann}
  MaxSent = 2
  MaxOpens = 2
  MaxSubmits = 2
  MaxReports = 2
INVARIANT ResultsMatchQuery
CHECK_DEADLOCK FALSE
