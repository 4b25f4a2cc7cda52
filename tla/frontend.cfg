CONSTANTS
  Existing = {b}
  Fresh = {a}
  None = None
  MaxEvents = 2
  MaxVersions = 2
  Smes = {s1, s2}
  Audiences = {a1}
  Tags = {t1}
  Folders = {f1}
  NoFolder = NoFolder
  Generated <- MCGenerated
  MaxSections = 3
  MaxAdded = 2
  Emails = {e1, e2}
  NoEmail = NoEmail
  MaxSeats = 2
  MaxReceived = 1
  MaxRetryCount = 3
  MaxTrouble = 3
  MaxLoginRetries = 3
  MaxMishaps = 3
  MaxSubmissions = 2
  MaxSmeEvents = 1
  MaxFolderDepth = 3
  FiledCourses = {k1}
  MaxFolders = 4
  Notes = {n1}
  MaxOnTheWay = 1
  Colleagues = {u1}
  MaxTeams = 1
  MaxTeamCalls = 2
  ApiKeys = {key1}
  LongKeys = {key1}
  NoKey = NoKey
  MaxKeyCalls = 1
  MaxAiCalls = 1
  MaxAudiences = 1
  MaxAudienceCalls = 2
  MaxCalls = 2
  MaxCreated = 2
SPECIFICATION FrontendSpec
INVARIANTS FrontendTypeOK
INVARIANTS PollsOwnJob LessonsOfApproved
INVARIANTS HandedIsComplete
INVARIANTS EditsKeepIdentity
INVARIANTS ReceivedComplete CheckoutAsShown
INVARIANTS OnlyInviteeJoins WelcomeIsTrue
INVARIANTS SignedOutStaysOut ResetSignsOut
INVARIANTS KnowledgeOfItsSubmission CompletedIsLearnt
INVARIANTS AfterStartHasCourse
INVARIANTS CoursesKeepFolders ShowsTheInbox TeamKeepsItsOwn UsageAddsUp
INVARIANTS AudiencesWhole FreshListIsTrue
PROPERTIES KeepsPromise DragRearranges CourseStays NobodyWaitsForever
CHECK_DEADLOCK FALSE
