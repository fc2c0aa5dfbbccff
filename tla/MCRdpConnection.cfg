SPECIFICATION Spec
CONSTANTS
  Options <- Usual
  MaxPasswords = 2
  Descriptor = {1, 2}
  NoFd = NoFd
  Channels = 1
  MaxDemands = 3
INVARIANTS PasswordsInTurn ProtocolAgreed CertificateApproved ConfirmAnswersDemand UpTogether EstablishedOnce
PROPERTIES NegotiationEnds DemandAnswered
CHECK_DEADLOCK FALSE
