CONSTANTS
  Producers = {p1, p2}
  Msgs = {m1, m2, m3}
  Blank = Blank
  MSG_MAX = 2
  P2S_MSG_LEN = 2
  Lens <- MCLens
  Fds = {fd1, fd2}
  StdoutFd = fd1
SPECIFICATION FairSpec
INVARIANTS TypeOK ExactlyOnce
PROPERTY PipeSpec
