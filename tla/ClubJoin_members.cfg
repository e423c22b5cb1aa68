SPECIFICATION Spec
CONSTANTS
  ann = ann
  bob = bob
  chess = chess
  robotics = robotics
  Students = {ann, bob}
  Clubs = {chess}
  Documents = {chess}
  Taps <- OnceEach
  StudentOf <- MCStudentOf
  ClubOf <- MCClubOf
  Enrolled <- NobodyEnrolled
  InitMembers <- ThreeMembers
  Remind = {}
  MaxOpens <- OneCard
INVARIANT NumberOfMembers
