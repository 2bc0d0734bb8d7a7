CONSTANTS
    J1 = J1
    J2 = J2
    U1 = U1
    U2 = U2
    P1 = P1
    P2 = P2
    Jobs <- MCJobs
    Users <- MCUsers
    Phones <- MCPhones
    Messages <- MCMessages
    Channels = {"LINE", "PREVIEW"}
    None = None
    MaxMessages = 2
    MaxFaults = 1
SPECIFICATION Spec
INVARIANTS
  OneNoticePerRequest
  FormsStayInTheFlow
  RegistrationsAreSound
PROPERTIES
  StaffIsAsked
SYMMETRY Interchangeable
CHECK_DEADLOCK FALSE
