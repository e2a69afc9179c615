\* Framing and progress of a stream connection: two sends of well-formed
\* messages and keep-alives, a read buffer smaller than a message so that
\* messages span buffers and end inside one; under fair delivery and fair
\* calls of read(), every message is handed up.
CONSTANTS
  Messages <- MC_Messages
  MaxSends = 2
  BufSize = 3
SPECIFICATION Spec
INVARIANTS
  TypeOK
  ReceivedMatchesSent
  NoValidMessageRejected
PROPERTIES
  AllMessagesRead
CHECK_DEADLOCK FALSE
