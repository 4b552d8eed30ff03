-------------------------------- MODULE Register --------------------------------
(***************************************************************************)
(* rsi_register (src/source.rs): the threads of a process register sources *)
(* while the rest of the process opens and closes descriptors of its own.  *)
(* All of them share the descriptor table, in which a closed number is     *)
(* handed out again; errno is per thread.                                  *)
(***************************************************************************)
EXTENDS Integers, Sequences

CONSTANTS
    Threads,      \* threads that call rsi_register
    Fds,          \* descriptor numbers the process may have open
    Arguments,    \* what they call it with: [null, hives, max_sequence]
    OpenErrnos,   \* what open(2) may fail with
    IoctlErrnos,  \* what REG_SRC_REGISTER may fail with
    CloseErrnos   \* what close(2) may set errno to

ASSUME FdAssumption == Fds \subseteq Nat
ASSUME ThreadAssumption == {"app", "free"} \cap Threads = {}

VARIABLES
    owner,    \* per descriptor: the call that opened it, "app", or "free"
    sources,  \* the descriptors on which the kernel has a registered source
    reg,      \* per descriptor: the registration, with the call it was made for
    pc,       \* where each thread is in rsi_register
    args,     \* the arguments of its call
    entries,  \* its marshalled hives
    fd,       \* its local fd
    errno,    \* its errno
    saved,    \* its local err
    ret,      \* what its call returned
    cause     \* history: the errno of the step that failed its call

locals == <<args, entries, fd, errno, saved, ret, cause>>
vars == <<owner, sources, reg, pc, locals>>

Errnos == { "none", "EINVAL", "ENOMEM", "EMFILE" } \cup OpenErrnos \cup IoctlErrnos \cup CloseErrnos

Locations == { "idle", "check", "reserve", "open", "ioctl", "get_errno",
               "close", "set_errno" }

NoArguments == [ null |-> TRUE, hives |-> <<>>, max_sequence |-> 0 ]

\* The variables stay in their types.
TypeOK == /\ owner \in [Fds -> Threads \cup {"app", "free"}]
          /\ sources \subseteq Fds
          /\ reg = [f \in Fds |-> reg[f]]
          /\ pc \in [Threads -> Locations]
          /\ args \in [Threads -> Arguments \cup {NoArguments}]
          /\ entries = [t \in Threads |-> entries[t]]
          /\ fd \in [Threads -> Fds \cup {-1}]
          /\ ret \in [Threads -> Fds \cup {-1}]
          /\ errno \in [Threads -> Errnos]
          /\ saved \in [Threads -> Errnos]
          /\ cause \in [Threads -> Errnos]

Init == /\ owner = [f \in Fds |-> "free"]
        /\ sources = {}
        /\ reg = [f \in Fds |-> <<>>]
        /\ pc = [t \in Threads |-> "idle"]
        /\ args = [t \in Threads |-> NoArguments]
        /\ entries = [t \in Threads |-> <<>>]
        /\ fd = [t \in Threads |-> -1]
        /\ ret = [t \in Threads |-> -1]
        /\ errno = [t \in Threads |-> "none"]
        /\ saved = [t \in Threads |-> "none"]
        /\ cause = [t \in Threads |-> "none"]
-----------------------------------------------------------------------------
Goto(t, l) == pc' = [pc EXCEPT ![t] = l]

\* open(2) hands out the lowest free number; none is free: EMFILE.
IsNextFd(f) == owner[f] = "free" /\ \A g \in Fds : owner[g] = "free" => f <= g
TableFull   == \A f \in Fds : owner[f] # "free"

\* close(2) frees the number and ends what was registered on it.
Release(f) == /\ owner' = [owner EXCEPT ![f] = "free"]
              /\ sources' = sources \ {f}
              /\ reg' = [reg EXCEPT ![f] = <<>>]

\* The call returns; its locals are gone.
Return(t) == /\ Goto(t, "idle")
             /\ args' = [args EXCEPT ![t] = NoArguments]
             /\ entries' = [entries EXCEPT ![t] = <<>>]
             /\ fd' = [fd EXCEPT ![t] = -1]
             /\ saved' = [saved EXCEPT ![t] = "none"]

\* A step fails with e: errno says so, and it is why the call will return -1.
FailWith(t, e) == /\ errno' = [errno EXCEPT ![t] = e]
                  /\ cause' = [cause EXCEPT ![t] = e]
                  /\ ret' = [ret EXCEPT ![t] = -1]

\* A thread of the source calls rsi_register.
Call(t) == /\ pc[t] = "idle"
           /\ \E a \in Arguments : args' = [args EXCEPT ![t] = a]
           /\ Goto(t, "check")
           /\ ret' = [ret EXCEPT ![t] = -1]
           /\ cause' = [cause EXCEPT ![t] = "none"]
           /\ UNCHANGED <<owner, sources, reg, entries, fd, errno, saved>>

\* count == 0 or hives is NULL.
CheckArguments(t) ==
    /\ pc[t] = "check"
    /\ \/ /\ args[t].hives = <<>> \/ args[t].null
          /\ FailWith(t, "EINVAL") /\ Return(t)
       \/ /\ args[t].hives # <<>> /\ ~args[t].null
          /\ Goto(t, "reserve") /\ UNCHANGED locals
    /\ UNCHANGED <<owner, sources, reg>>

\* Mutant: the scope is left to ..Default.
marshal_hive_global(h) == [ name_len |-> h.name_len, name_ptr |-> h.name, root_guid |-> h.root_guid,
                            flags |-> h.flags, scope_guid |-> 0, pad |-> 0 ]

\* marshal_hive: the wire entry, its pads zero.
marshal_hive(h) == [ name_len |-> h.name_len, name_ptr |-> h.name, root_guid |-> h.root_guid,
                     flags |-> h.flags, scope_guid |-> h.scope_guid, pad |-> 0 ]

\* try_reserve, and on success the loop that marshals each hive in turn.
Reserve(t) ==
    /\ pc[t] = "reserve"
    /\ \/ FailWith(t, "ENOMEM") /\ Return(t)
       \/ /\ entries' = [entries EXCEPT ![t] =
                            [i \in DOMAIN args[t].hives |-> marshal_hive(args[t].hives[i])]]
          /\ Goto(t, "open") /\ UNCHANGED <<args, fd, errno, saved, ret, cause>>
    /\ UNCHANGED <<owner, sources, reg>>

\* Mutant: the result of open(2) is not looked at.
OpenUnchecked(t) ==
    /\ pc[t] = "open"
    /\ \/ /\ \E f \in Fds : /\ IsNextFd(f)
                            /\ owner' = [owner EXCEPT ![f] = t]
                            /\ fd' = [fd EXCEPT ![t] = f]
          /\ UNCHANGED errno
       \/ /\ \E e \in OpenErrnos : errno' = [errno EXCEPT ![t] = e]
          /\ fd' = [fd EXCEPT ![t] = -1] /\ UNCHANGED owner
    /\ Goto(t, "ioctl")
    /\ UNCHANGED <<sources, reg, args, entries, saved, cause, ret>>

\* open(DEVICE): a failure returns with the errno of open(2).
Open(t) ==
    /\ pc[t] = "open"
    /\ \/ /\ \E f \in Fds : /\ IsNextFd(f)
                            /\ owner' = [owner EXCEPT ![f] = t]
                            /\ fd' = [fd EXCEPT ![t] = f]
          /\ Goto(t, "ioctl") /\ UNCHANGED <<args, entries, errno, saved, ret, cause>>
       \/ /\ \/ \E e \in OpenErrnos : FailWith(t, e)
             \/ TableFull /\ FailWith(t, "EMFILE")
          /\ Return(t) /\ UNCHANGED owner
    /\ UNCHANGED <<sources, reg>>

\* What the kernel finds behind args: hive_count entries at hives_ptr.
Registration(t) == [ hives |-> entries[t], max_sequence |-> args[t].max_sequence, call |-> args[t] ]

\* Mutant: a failed ioctl returns without closing the descriptor.
IoctlWithoutCleanup(t) ==
    /\ pc[t] = "ioctl" /\ Return(t)
    /\ \/ /\ sources' = sources \cup {fd[t]}
          /\ reg' = [reg EXCEPT ![fd[t]] = Registration(t)]
          /\ owner' = [owner EXCEPT ![fd[t]] = "app"]
          /\ ret' = [ret EXCEPT ![t] = fd[t]]
          /\ UNCHANGED <<errno, cause>>
       \/ /\ \E e \in IoctlErrnos : FailWith(t, e)
          /\ UNCHANGED <<owner, sources, reg>>

\* Mutant: r <= 0 is taken for a failure, so a registration that succeeded is
\* reported as failed.
IoctlZeroIsFailure(t) ==
    /\ pc[t] = "ioctl" /\ Goto(t, "get_errno")
    /\ \/ /\ sources' = sources \cup {fd[t]}
          /\ reg' = [reg EXCEPT ![fd[t]] = Registration(t)]
          /\ UNCHANGED <<errno, cause>>
       \/ /\ \E e \in IoctlErrnos : FailWith(t, e)
          /\ UNCHANGED <<sources, reg>>
    /\ UNCHANGED <<owner, args, entries, fd, saved, ret>>

\* ioctl(REG_SRC_REGISTER): the kernel registers all the hives, and the fd is
\* the caller's; or it registers none and sets errno.
Ioctl(t) ==
    /\ pc[t] = "ioctl"
    /\ \/ /\ \A i \in DOMAIN entries[t] : entries[t][i].pad = 0
          /\ sources' = sources \cup {fd[t]}
          /\ reg' = [reg EXCEPT ![fd[t]] = Registration(t)]
          /\ owner' = [owner EXCEPT ![fd[t]] = "app"]
          /\ ret' = [ret EXCEPT ![t] = fd[t]]
          /\ Return(t) /\ UNCHANGED <<errno, cause>>
       \/ /\ \E e \in IoctlErrnos : FailWith(t, e)
          /\ Goto(t, "get_errno")
          /\ UNCHANGED <<owner, sources, reg, args, entries, fd, saved>>

\* err = get_errno()
GetErrno(t) == /\ pc[t] = "get_errno"
               /\ saved' = [saved EXCEPT ![t] = errno[t]]
               /\ Goto(t, "close")
               /\ UNCHANGED <<owner, sources, reg, args, entries, fd, errno, ret, cause>>

\* Mutant: close(2) is retried when it reports EINTR.
CloseRetried(t) ==
    /\ pc[t] = "close"
    /\ Release(fd[t])
    /\ \/ UNCHANGED errno /\ Goto(t, "set_errno")
       \/ errno' = [errno EXCEPT ![t] = "EINTR"] /\ UNCHANGED pc
    /\ UNCHANGED <<args, entries, fd, saved, ret, cause>>

\* close(fd).  The number is free again even when close(2) reports an error.
Close(t) == /\ pc[t] = "close"
            /\ Release(fd[t])
            /\ \/ UNCHANGED errno
               \/ \E e \in CloseErrnos : errno' = [errno EXCEPT ![t] = e]
            /\ Goto(t, "set_errno")
            /\ UNCHANGED <<args, entries, fd, saved, ret, cause>>

\* Mutant: errno is left as close(2) left it.
SetErrnoSkipped(t) == /\ pc[t] = "set_errno"
                      /\ ret' = [ret EXCEPT ![t] = -1]
                      /\ Return(t)
                      /\ UNCHANGED <<owner, sources, reg, errno, cause>>

\* set_errno(err), and return -1.
SetErrno(t) == /\ pc[t] = "set_errno"
               /\ errno' = [errno EXCEPT ![t] = saved[t]]
               /\ ret' = [ret EXCEPT ![t] = -1]
               /\ Return(t)
               /\ UNCHANGED <<owner, sources, reg, cause>>
-----------------------------------------------------------------------------
\* The rest of the process opens descriptors, and closes the ones that are its
\* own, sources among them (which ends their registration).
AppOpen(f) == /\ IsNextFd(f)
              /\ owner' = [owner EXCEPT ![f] = "app"]
              /\ UNCHANGED <<sources, reg, pc, locals>>

AppClose(f) == /\ owner[f] = "app"
               /\ Release(f)
               /\ UNCHANGED <<pc, locals>>

Library(t) == \/ CheckArguments(t) \/ Reserve(t) \/ Open(t) \/ Ioctl(t)
              \/ GetErrno(t) \/ Close(t) \/ SetErrno(t)

Next == \/ \E t \in Threads : Call(t) \/ Library(t)
        \/ \E f \in Fds : AppOpen(f) \/ AppClose(f)

\* A call that was made runs on: its thread is scheduled, and open(2), the ioctl
\* and close(2) return.
Fairness == \A t \in Threads : WF_vars(Library(t))

Spec == Init /\ [][Next]_vars /\ Fairness
-----------------------------------------------------------------------------
\* rsi_register leaks no descriptor: whichever step failed, a call that is over
\* leaves none of its own open, so failing registrations never fill the table.
NoLeak == \A t \in Threads :
             { f \in Fds : owner[f] = t } =
                IF pc[t] \in { "ioctl", "get_errno", "close" } THEN {fd[t]} ELSE {}

\* The errno a failed rsi_register leaves is that of the step that failed, though
\* the cleanup close() may have set another ("Preserve the registration errno
\* across the cleanup close()").
ErrnoIsCause == \A t \in Threads :
                   pc[t] = "idle" /\ ret[t] = -1 => errno[t] = cause[t]

\* A registered source is always on a descriptor the application was given: a
\* call never fails with its registration left behind, and no registration
\* outlives its descriptor.
NoGhostSource == \A f \in sources : owner[f] = "app"

\* The kernel registers what its caller passed to rsi_register: each hive with
\* its name, GUIDs and flags, in order, and max_sequence, from which it resumes
\* its sequence numbers.
RegisteredAsAsked ==
    \A f \in sources :
        LET r == reg[f] IN
        /\ r.max_sequence = r.call.max_sequence
        /\ DOMAIN r.hives = DOMAIN r.call.hives
        /\ \A i \in DOMAIN r.hives :
              LET e == r.hives[i]  h == r.call.hives[i] IN
              /\ <<e.name_ptr, e.name_len, e.flags>> = <<h.name, h.name_len, h.flags>>
              /\ <<e.root_guid, e.scope_guid>> = <<h.root_guid, h.scope_guid>>

\* A step of rsi_register takes or closes only a descriptor of its own call: the
\* cleanup close() never hits a number that was handed out again meanwhile.
ClosesOnlyItsOwn ==
    [][\A t \in Threads : pc'[t] # pc[t] =>
          \A f \in Fds : owner'[f] # owner[f] => owner[f] \in {t, "free"}]_vars

\* Every call of rsi_register returns.
CallReturns == \A t \in Threads : pc[t] = "check" ~> pc[t] = "idle"
=============================================================================
