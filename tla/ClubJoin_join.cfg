SPECIFICATION Spec
CONSTANTS
  ann = ann
  bob = bob
  chess = chess
  robotics = robotics
  Students = {ann, bob}
  Clubs = {chess, robotics}
  Documents = {chess}
  Taps <- WithMissing
  StudentOf <- MCStudentOf
  ClubOf <- MCClubOf
  Enrolled <- NobodyEnrolled
  InitMembers <- ThreeMembers
  Remind = {chess}
  MaxOpens <- AnnTwice
INVARIANTS
  TypeOK
  CountWithin
  ExactWithoutOverlap
  NeverOvercounted
  CleanJoinsAreCounted
  AlreadyJoinedIsTrue
  
