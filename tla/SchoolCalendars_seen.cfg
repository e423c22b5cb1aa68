SPECIFICATION FairSpec
CONSTANTS
  Unset = Unset
  Events <- MCEvents
  StartTime <- MCStart
  EndTime <- MCEnd
  NchsEvents = {"rally"}
  MaxNow = 1
  Clubs = {"chess", "ghost"}
  ExistingClubs = {"chess"}
  Names = {"Chess", "Ghost"}
  NameOf <- MCNameOf
  DocumentOf <- MCDocumentOf
  Advised = {"chess", "ghost"}
  Joined = {"chess"}
  StoredEvents <- NoneStored
  StoredPersonal = {}
  TeacherDrafts = {"open"}
  StudentDrafts = {"exam"}
  MaxOpens = 2
INVARIANTS
  TypeOK
  AwaitedEventsShown
  RequestedInOneClub
PROPERTIES
  SubmittedIsShown
  SeenByStudents
CHECK_DEADLOCK FALSE
