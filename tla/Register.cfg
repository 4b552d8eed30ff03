SPECIFICATION Spec
CONSTANTS
    Threads = {t1, t2}
    Fds = {3, 4, 5}
    Arguments <- MCArguments
    OpenErrnos = {"EACCES"}
    IoctlErrnos = {"EPERM"}
    CloseErrnos = {"EINTR"}
INVARIANTS TypeOK NoLeak ErrnoIsCause NoGhostSource RegisteredAsAsked
PROPERTIES ClosesOnlyItsOwn CallReturns
