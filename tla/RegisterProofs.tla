----------------------------- MODULE RegisterProofs -----------------------------
(***************************************************************************)
(* Theorems about Register, for any number of threads and descriptors.     *)
(***************************************************************************)
EXTENDS Register, TLAPS

Holding == { "ioctl", "get_errno", "close" }

\* The descriptors a call has opened and not handed over.
HoldsItsFd == \A t \in Threads, f \in Fds :
                 owner[f] = t <=> pc[t] \in Holding /\ fd[t] = f
HasFd == \A t \in Threads : pc[t] \in Holding => fd[t] \in Fds

\* The errno to return is in errno, and after get_errno in the local err.
ErrnoInv == \A t \in Threads :
               /\ pc[t] = "idle" /\ ret[t] = -1 => errno[t] = cause[t]
               /\ pc[t] = "get_errno" => errno[t] = cause[t]
               /\ pc[t] \in { "close", "set_errno" } => saved[t] = cause[t]

\* The inductive invariant for the descriptor table and errno.
IInv == TypeOK /\ HoldsItsFd /\ HasFd /\ NoGhostSource /\ ErrnoInv

USE FdAssumption, ThreadAssumption

\* Nothing is open, registered or failed at first.
LEMMA InitIInv == Init => IInv
<1> SUFFICES ASSUME Init PROVE IInv
  OBVIOUS
<1>1. TypeOK
  BY DEF Init, TypeOK, Locations, Errnos
<1>2. HoldsItsFd /\ HasFd
  BY DEF Init, HoldsItsFd, HasFd, Holding
<1>3. NoGhostSource /\ ErrnoInv
  BY DEF Init, NoGhostSource, ErrnoInv
<1> QED
  BY <1>1, <1>2, <1>3 DEF IInv

LocalTypes ==
    /\ pc \in [Threads -> Locations]
    /\ args \in [Threads -> Arguments \cup {NoArguments}]
    /\ entries = [t \in Threads |-> entries[t]]
    /\ fd \in [Threads -> Fds \cup {-1}]
    /\ saved \in [Threads -> Errnos]

ResultTypes == /\ ret \in [Threads -> Fds \cup {-1}]
               /\ errno \in [Threads -> Errnos]
               /\ cause \in [Threads -> Errnos]

\* Returning resets the locals to values of their types.
LEMMA ReturnTypes == ASSUME TypeOK, NEW t \in Threads, Return(t) PROVE LocalTypes'
  BY DEF TypeOK, Return, Goto, LocalTypes, Locations, Errnos

\* So does failing with an errno.
LEMMA FailTypes == ASSUME TypeOK, NEW t \in Threads, NEW e \in Errnos, FailWith(t, e)
                   PROVE  ResultTypes'
  BY DEF TypeOK, FailWith, ResultTypes

\* Going on within a call keeps the program counter in its type.
LEMMA GotoTypes == ASSUME TypeOK, NEW t \in Threads, NEW l \in Locations, Goto(t, l)
                   PROVE  pc' \in [Threads -> Locations]
  BY DEF TypeOK, Goto

\* A step of a call that holds no descriptor before or after it, and leaves the
\* table alone, keeps the ownership facts.
LEMMA HoldsNothing ==
    ASSUME TypeOK, HoldsItsFd, HasFd, NEW t \in Threads, pc[t] \notin Holding,
           NEW l \in Locations \ Holding, Goto(t, l), UNCHANGED owner,
           \A u \in Threads \ {t} : fd'[u] = fd[u]
    PROVE  HoldsItsFd' /\ HasFd'
<1>1. \A u \in Threads : pc'[u] = IF u = t THEN l ELSE pc[u]
  BY DEF TypeOK, Goto
<1>2. HasFd'
  BY <1>1 DEF HasFd
<1>3. ASSUME NEW u \in Threads, NEW f \in Fds
      PROVE  owner'[f] = u <=> pc'[u] \in Holding /\ fd'[u] = f
  <2>1. CASE u = t
    BY <1>1, <2>1 DEF HoldsItsFd
  <2>2. CASE u # t
    BY <1>1, <2>2 DEF HoldsItsFd
  <2> QED
    BY <2>1, <2>2
<1> QED
  BY <1>2, <1>3 DEF HoldsItsFd

\* The locations of a call at which it holds no descriptor.
LEMMA Elsewhere == Locations \ Holding = { "idle", "check", "reserve", "open", "set_errno" }
  BY DEF Locations, Holding

\* A call that returns without a descriptor leaves the ownership facts alone.
LEMMA ReturnsNothing ==
    ASSUME TypeOK, HoldsItsFd, HasFd, NEW t \in Threads, pc[t] \notin Holding,
           Return(t), UNCHANGED owner
    PROVE  HoldsItsFd' /\ HasFd'
  BY HoldsNothing, Elsewhere DEF Return, TypeOK

\* A new call opens nothing yet and starts without a cause.
LEMMA CallKeeps == ASSUME NEW t \in Threads, IInv, Call(t) PROVE IInv'
<1> USE DEF Call
<1>1. TypeOK'
  BY DEF Goto, IInv, TypeOK, HasFd, Holding, Locations, Errnos
<1>2. HoldsItsFd' /\ HasFd'
  BY HoldsNothing, Elsewhere DEF IInv
<1>3. NoGhostSource'
  BY DEF IInv, TypeOK, HoldsItsFd, HasFd, Holding, NoGhostSource
<1>4. ErrnoInv'
  BY DEF Goto, IInv, TypeOK, HasFd, Holding, ErrnoInv
<1> QED
  BY <1>1, <1>2, <1>3, <1>4 DEF IInv

\* The argument check touches no descriptor.
LEMMA CheckArgumentsKeeps == ASSUME NEW t \in Threads, IInv, CheckArguments(t) PROVE IInv'
<1> USE DEF CheckArguments
<1>1. TypeOK'
  <2>1. CASE FailWith(t, "EINVAL") /\ Return(t)
    <3>1. LocalTypes' /\ ResultTypes'
      BY <2>1, ReturnTypes, FailTypes DEF IInv, Errnos
    <3> QED
      BY <3>1 DEF IInv, TypeOK, LocalTypes, ResultTypes
  <2>2. CASE Goto(t, "reserve") /\ UNCHANGED locals
    <3>1. pc' \in [Threads -> Locations]
      BY <2>2, GotoTypes DEF IInv, Locations
    <3> QED
      BY <2>2, <3>1 DEF IInv, TypeOK, locals
  <2> QED
    BY <2>1, <2>2
<1>2. HoldsItsFd' /\ HasFd'
  <2>1. CASE Return(t)
    BY <2>1, ReturnsNothing, Elsewhere DEF IInv
  <2>2. CASE Goto(t, "reserve") /\ UNCHANGED locals
    BY <2>2, HoldsNothing, Elsewhere DEF IInv, locals
  <2> QED
    BY <2>1, <2>2
<1>3. NoGhostSource'
  BY DEF IInv, NoGhostSource
<1>4. ErrnoInv'
  BY DEF IInv, TypeOK, ErrnoInv, FailWith, Return, Goto, locals
<1> QED
  BY <1>1, <1>2, <1>3, <1>4 DEF IInv

\* Neither does the marshalling.
LEMMA ReserveKeeps == ASSUME NEW t \in Threads, IInv, Reserve(t) PROVE IInv'
<1> USE DEF Reserve
<1>1. TypeOK'
  <2>1. CASE FailWith(t, "ENOMEM") /\ Return(t)
    <3>1. LocalTypes' /\ ResultTypes'
      BY <2>1, ReturnTypes, FailTypes DEF IInv, Errnos
    <3> QED
      BY <3>1 DEF IInv, TypeOK, LocalTypes, ResultTypes
  <2>2. CASE Goto(t, "open") /\ ~(FailWith(t, "ENOMEM") /\ Return(t))
    <3>1. pc' \in [Threads -> Locations]
      BY <2>2, GotoTypes DEF IInv, Locations
    <3> QED
      BY <2>2, <3>1 DEF IInv, TypeOK
  <2> QED
    BY <2>1, <2>2
<1>2. HoldsItsFd' /\ HasFd'
  <2>1. CASE Return(t)
    BY <2>1, ReturnsNothing, Elsewhere DEF IInv
  <2>2. CASE Goto(t, "open") /\ UNCHANGED fd
    BY <2>2, HoldsNothing, Elsewhere DEF IInv
  <2> QED
    BY <2>1, <2>2
<1>3. NoGhostSource'
  BY DEF IInv, NoGhostSource
<1>4. ErrnoInv'
  <2>1. CASE FailWith(t, "ENOMEM") /\ Return(t)
    BY <2>1 DEF IInv, TypeOK, ErrnoInv, FailWith, Return, Goto
  <2>2. CASE Goto(t, "open") /\ UNCHANGED <<args, fd, errno, saved, ret, cause>>
    BY <2>2 DEF IInv, TypeOK, ErrnoInv, Goto
  <2> QED
    BY <2>1, <2>2
<1> QED
  BY <1>1, <1>2, <1>3, <1>4 DEF IInv

\* open(2) gives the call a number that was free, or fails the call with its errno.
LEMMA OpenKeeps == ASSUME NEW t \in Threads, IInv, Open(t) PROVE IInv'
<1> USE DEF Open
<1>1. TypeOK'
  <2>1. ASSUME NEW f \in Fds, owner' = [owner EXCEPT ![f] = t], fd' = [fd EXCEPT ![t] = f],
               Goto(t, "ioctl"), UNCHANGED <<sources, reg, args, entries, errno, saved, ret, cause>>
        PROVE  TypeOK'
    <3>1. pc' \in [Threads -> Locations]
      BY <2>1, GotoTypes DEF IInv, Locations
    <3> QED
      BY <2>1, <3>1 DEF IInv, TypeOK
  <2>2. ASSUME NEW e \in Errnos, FailWith(t, e), Return(t), UNCHANGED <<owner, sources, reg>>
        PROVE  TypeOK'
    <3>1. LocalTypes' /\ ResultTypes'
      BY <2>2, ReturnTypes, FailTypes DEF IInv
    <3> QED
      BY <2>2, <3>1 DEF IInv, TypeOK, LocalTypes, ResultTypes
  <2> QED
    BY <2>1, <2>2 DEF Errnos
<1>2. HoldsItsFd' /\ HasFd'
  <2>1. ASSUME NEW f \in Fds, IsNextFd(f), owner' = [owner EXCEPT ![f] = t],
               fd' = [fd EXCEPT ![t] = f], Goto(t, "ioctl")
        PROVE  HoldsItsFd' /\ HasFd'
    BY <2>1 DEF IInv, TypeOK, HoldsItsFd, HasFd, Holding, IsNextFd, Goto
  <2>2. CASE Return(t) /\ UNCHANGED owner
    BY <2>2, ReturnsNothing, Elsewhere DEF IInv
  <2> QED
    BY <2>1, <2>2
<1>3. NoGhostSource'
  BY DEF IInv, TypeOK, NoGhostSource, IsNextFd
<1>4. ErrnoInv'
  BY DEF IInv, TypeOK, ErrnoInv, FailWith, Return, Goto
<1> QED
  BY <1>1, <1>2, <1>3, <1>4 DEF IInv

\* A registration goes with handing the descriptor over; a failure keeps the
\* descriptor with the call and its errno in errno.
LEMMA IoctlKeeps == ASSUME NEW t \in Threads, IInv, Ioctl(t) PROVE IInv'
<1> DEFINE Registered == /\ sources' = sources \cup {fd[t]}
                         /\ reg' = [reg EXCEPT ![fd[t]] = Registration(t)]
                         /\ owner' = [owner EXCEPT ![fd[t]] = "app"]
                         /\ ret' = [ret EXCEPT ![t] = fd[t]]
                         /\ Return(t) /\ UNCHANGED <<errno, cause>>
<1>a. pc[t] = "ioctl" /\ fd[t] \in Fds
  BY DEF Ioctl, IInv, HasFd, Holding
<1>1. CASE Registered
  <2>1. LocalTypes'
    BY <1>1, ReturnTypes DEF IInv
  <2>2. TypeOK'
    BY <1>a, <1>1, <2>1 DEF IInv, TypeOK, LocalTypes
  <2>3. HoldsItsFd' /\ HasFd'
    BY <1>a, <1>1 DEF Return, Goto, IInv, TypeOK, HoldsItsFd, HasFd, Holding
  <2>4. NoGhostSource'
    BY <1>a, <1>1 DEF IInv, TypeOK, NoGhostSource
  <2>5. ErrnoInv'
    BY <1>a, <1>1 DEF Return, Goto, IInv, TypeOK, ErrnoInv
  <2> QED
    BY <2>2, <2>3, <2>4, <2>5 DEF IInv
<1>2. ASSUME NEW e \in IoctlErrnos, FailWith(t, e), Goto(t, "get_errno"),
             UNCHANGED <<owner, sources, reg, args, entries, fd, saved>>
      PROVE  IInv'
  <2>1. ResultTypes' /\ pc' \in [Threads -> Locations]
    BY <1>2, FailTypes, GotoTypes DEF IInv, Errnos, Locations
  <2>2. TypeOK'
    BY <1>2, <2>1 DEF IInv, TypeOK, ResultTypes
  <2>3. HoldsItsFd' /\ HasFd'
    BY <1>a, <1>2 DEF Goto, IInv, TypeOK, HoldsItsFd, HasFd, Holding
  <2>4. NoGhostSource'
    BY <1>2 DEF IInv, NoGhostSource
  <2>5. ErrnoInv'
    BY <1>a, <1>2 DEF FailWith, Goto, IInv, TypeOK, ErrnoInv
  <2> QED
    BY <2>2, <2>3, <2>4, <2>5 DEF IInv
<1> QED
  BY <1>1, <1>2 DEF Ioctl

\* The cause moves to the local err.
LEMMA GetErrnoKeeps == ASSUME NEW t \in Threads, IInv, GetErrno(t) PROVE IInv'
<1> USE DEF GetErrno, Goto
<1>1. TypeOK'
  BY DEF IInv, TypeOK, HasFd, Holding, Locations, Errnos
<1>2. HoldsItsFd' /\ HasFd'
  BY DEF IInv, TypeOK, HoldsItsFd, HasFd, Holding
<1>3. NoGhostSource'
  BY DEF IInv, TypeOK, HoldsItsFd, HasFd, Holding, NoGhostSource
<1>4. ErrnoInv'
  BY DEF IInv, TypeOK, HasFd, Holding, ErrnoInv
<1> QED
  BY <1>1, <1>2, <1>3, <1>4 DEF IInv

\* close(2) frees the one descriptor the call holds, and no source is on it.
LEMMA CloseKeeps == ASSUME NEW t \in Threads, IInv, Close(t) PROVE IInv'
<1> USE DEF Close, Release, Goto
<1>1. TypeOK'
  <2>1. fd[t] \in Fds
    BY DEF IInv, HasFd, Holding
  <2>2. errno' \in [Threads -> Errnos] /\ pc' \in [Threads -> Locations]
    BY DEF IInv, TypeOK, Locations, Errnos
  <2> QED
    BY <2>1, <2>2 DEF IInv, TypeOK
<1>2. HoldsItsFd' /\ HasFd'
  BY DEF IInv, TypeOK, HoldsItsFd, HasFd, Holding
<1>3. NoGhostSource'
  BY DEF IInv, TypeOK, HoldsItsFd, HasFd, Holding, NoGhostSource
<1>4. ErrnoInv'
  BY DEF IInv, TypeOK, HasFd, Holding, ErrnoInv
<1> QED
  BY <1>1, <1>2, <1>3, <1>4 DEF IInv

\* The cause is back in errno.
LEMMA SetErrnoKeeps == ASSUME NEW t \in Threads, IInv, SetErrno(t) PROVE IInv'
<1> USE DEF SetErrno
<1>1. TypeOK'
  <2>1. LocalTypes'
    BY ReturnTypes DEF IInv
  <2> QED
    BY <2>1 DEF IInv, TypeOK, LocalTypes
<1>2. HoldsItsFd' /\ HasFd'
  BY ReturnsNothing, Elsewhere DEF IInv
<1>3. NoGhostSource'
  BY DEF IInv, NoGhostSource
<1>4. ErrnoInv'
  BY DEF IInv, TypeOK, ErrnoInv, Return, Goto
<1> QED
  BY <1>1, <1>2, <1>3, <1>4 DEF IInv

\* The rest of the process opens only free numbers and closes only its own.
LEMMA AppKeeps == ASSUME NEW f \in Fds, IInv, AppOpen(f) \/ AppClose(f) PROVE IInv'
<1> USE DEF AppOpen, AppClose, IsNextFd, Release, locals
<1>1. TypeOK'
  <2>1. owner' \in [Fds -> Threads \cup {"app", "free"}]
    BY DEF IInv, TypeOK
  <2>2. sources' \subseteq Fds /\ reg' = [g \in Fds |-> reg'[g]]
    BY DEF IInv, TypeOK
  <2>3. UNCHANGED <<pc, args, entries, fd, errno, saved, ret, cause>>
    OBVIOUS
  <2> QED
    BY <2>1, <2>2, <2>3 DEF IInv, TypeOK
<1>2. HoldsItsFd' /\ HasFd'
  BY DEF IInv, TypeOK, HoldsItsFd, HasFd
<1>3. NoGhostSource'
  BY DEF IInv, TypeOK, NoGhostSource
<1>4. ErrnoInv'
  BY DEF IInv, ErrnoInv
<1> QED
  BY <1>1, <1>2, <1>3, <1>4 DEF IInv

\* Every step keeps the inductive invariant.
LEMMA NextKeeps == IInv /\ [Next]_vars => IInv'
<1> SUFFICES ASSUME IInv, [Next]_vars PROVE IInv'
  OBVIOUS
<1>1. CASE UNCHANGED vars
  BY <1>1 DEF vars, locals, IInv, TypeOK, HoldsItsFd, HasFd, NoGhostSource, ErrnoInv
<1>2. ASSUME NEW t \in Threads, Call(t) \/ Library(t) PROVE IInv'
  BY <1>2, CallKeeps, CheckArgumentsKeeps, ReserveKeeps, OpenKeeps, IoctlKeeps,
     GetErrnoKeeps, CloseKeeps, SetErrnoKeeps DEF Library
<1>3. ASSUME NEW f \in Fds, AppOpen(f) \/ AppClose(f) PROVE IInv'
  BY <1>3, AppKeeps
<1> QED
  BY <1>1, <1>2, <1>3 DEF Next

\* The inductive invariant holds throughout.
THEOREM Inductive == Spec => []IInv
  BY InitIInv, NextKeeps, PTL DEF Spec

\* The variables keep their types.
THEOREM TypeCorrect == Spec => []TypeOK
<1>1. IInv => TypeOK
  BY DEF IInv
<1> QED
  BY <1>1, Inductive, PTL

\* rsi_register never leaks a descriptor, however many threads call it.
THEOREM NeverLeaks == Spec => []NoLeak
<1>1. IInv => NoLeak
  <2> SUFFICES ASSUME IInv, NEW t \in Threads
               PROVE  { f \in Fds : owner[f] = t } = IF pc[t] \in Holding THEN {fd[t]} ELSE {}
    BY DEF NoLeak, Holding
  <2>1. CASE pc[t] \in Holding
    <3>1. fd[t] \in Fds
      BY <2>1 DEF IInv, HasFd
    <3>2. \A f \in Fds : owner[f] = t <=> fd[t] = f
      BY <2>1 DEF IInv, HoldsItsFd
    <3>3. { f \in Fds : owner[f] = t } = {fd[t]}
      BY <3>1, <3>2
    <3> QED
      BY <2>1, <3>3
  <2>2. CASE pc[t] \notin Holding
    BY <2>2 DEF IInv, HoldsItsFd
  <2> QED
    BY <2>1, <2>2
<1> QED
  BY <1>1, Inductive, PTL

\* The errno of a failed rsi_register is that of the step that failed.
THEOREM ErrnoSurvivesCleanup == Spec => []ErrnoIsCause
<1>1. IInv => ErrnoIsCause
  BY DEF IInv, ErrnoInv, ErrnoIsCause
<1> QED
  BY <1>1, Inductive, PTL

\* A registered source always has a descriptor the application owns.
THEOREM SourcesAreOwned == Spec => []NoGhostSource
<1>1. IInv => NoGhostSource
  BY DEF IInv
<1> QED
  BY <1>1, Inductive, PTL

\* The cleanup close() never closes a descriptor of somebody else.
THEOREM NeverClosesForeign == Spec => ClosesOnlyItsOwn
<1> DEFINE Own == \A t \in Threads : pc'[t] # pc[t] =>
                    \A f \in Fds : owner'[f] # owner[f] => owner[f] \in {t, "free"}
<1>1. IInv /\ [Next]_vars => [Own]_vars
  <2> SUFFICES ASSUME IInv, Next, NEW t \in Threads, pc'[t] # pc[t],
                      NEW f \in Fds, owner'[f] # owner[f]
               PROVE  owner[f] \in {t, "free"}
    OBVIOUS
  <2>1. PICK u \in Threads : Call(u) \/ Library(u)
    BY DEF Next, AppOpen, AppClose
  <2>2. u = t
    BY <2>1 DEF IInv, TypeOK, Call, Library, CheckArguments, Reserve, Open, Ioctl,
                GetErrno, Close, SetErrno, Goto, Return
  <2>3. Open(t) \/ Ioctl(t) \/ Close(t)
    BY <2>1, <2>2 DEF Call, Library, CheckArguments, Reserve, GetErrno, SetErrno
  <2>4. CASE Open(t)
    BY <2>4 DEF Open, IsNextFd, IInv, TypeOK
  <2>5. CASE Ioctl(t) \/ Close(t)
    BY <2>5 DEF Ioctl, Close, Release, IInv, TypeOK, HoldsItsFd, HasFd, Holding
  <2> QED
    BY <2>3, <2>4, <2>5
<1> QED
  BY <1>1, Inductive, PTL DEF Spec, ClosesOnlyItsOwn
-----------------------------------------------------------------------------
Marshalled(hives) == [i \in DOMAIN hives |-> marshal_hive(hives[i])]

\* From the marshalling loop to the ioctl, entries is what the caller's hives
\* come to on the wire.
EntriesInv == \A t \in Threads : pc[t] \in { "open", "ioctl" } =>
                 entries[t] = Marshalled(args[t].hives)

\* A registration says what was asked by the call it was made for.
SaysWhatWasAsked(r) ==
    /\ r.max_sequence = r.call.max_sequence
    /\ DOMAIN r.hives = DOMAIN r.call.hives
    /\ \A i \in DOMAIN r.hives :
          /\ <<r.hives[i].name_ptr, r.hives[i].name_len, r.hives[i].flags>>
             = <<r.call.hives[i].name, r.call.hives[i].name_len, r.call.hives[i].flags>>
          /\ <<r.hives[i].root_guid, r.hives[i].scope_guid>>
             = <<r.call.hives[i].root_guid, r.call.hives[i].scope_guid>>

\* Marshalling keeps every hive, in its place, with all of its fields.
LEMMA MarshallingKeeps ==
    ASSUME NEW t \in Threads, entries[t] = Marshalled(args[t].hives)
    PROVE  SaysWhatWasAsked(Registration(t))
<1> DEFINE h == args[t].hives
           r == Registration(t)
<1>1. r.hives = Marshalled(h) /\ r.max_sequence = r.call.max_sequence /\ r.call.hives = h
  BY DEF Registration
<1>2. DOMAIN r.hives = DOMAIN r.call.hives
  BY <1>1 DEF Marshalled
<1>3. ASSUME NEW i \in DOMAIN r.hives PROVE r.hives[i] = marshal_hive(r.call.hives[i])
  BY <1>1, <1>3 DEF Marshalled
<1> HIDE DEF r
<1>4. ASSUME NEW i \in DOMAIN r.hives
      PROVE  /\ r.hives[i].name_ptr = r.call.hives[i].name
             /\ r.hives[i].name_len = r.call.hives[i].name_len
             /\ r.hives[i].flags = r.call.hives[i].flags
             /\ r.hives[i].root_guid = r.call.hives[i].root_guid
             /\ r.hives[i].scope_guid = r.call.hives[i].scope_guid
  <2>1. PICK h1 : h1 = r.call.hives[i]
    OBVIOUS
  <2>2. r.hives[i] = marshal_hive(h1)
    BY <1>3, <2>1
  <2> QED
    BY <2>1, <2>2 DEF marshal_hive
<1>5. SaysWhatWasAsked(r)
  BY <1>1, <1>2, <1>4 DEF SaysWhatWasAsked
<1> QED
  BY <1>5 DEF r

\* Only Reserve fills in entries, and nothing changes the arguments of a call that
\* is on its way.
LEMMA EntriesStep == ASSUME IInv, EntriesInv, Next PROVE EntriesInv'
<1> SUFFICES ASSUME NEW t \in Threads, pc'[t] \in { "open", "ioctl" }
             PROVE  entries'[t] = Marshalled(args'[t].hives)
  BY DEF EntriesInv
<1>1. CASE \E f \in Fds : AppOpen(f) \/ AppClose(f)
  BY <1>1 DEF AppOpen, AppClose, locals, EntriesInv
<1>2. ASSUME NEW u \in Threads, Call(u) \/ Library(u), u # t
      PROVE  entries'[t] = Marshalled(args'[t].hives)
  <2>1. pc'[t] = pc[t] /\ args'[t] = args[t] /\ entries'[t] = entries[t]
    <3>1. CASE Call(u)
      BY <1>2, <3>1 DEF Call, Goto, IInv, TypeOK
    <3>2. CASE CheckArguments(u) \/ Reserve(u)
      BY <1>2, <3>2 DEF CheckArguments, Reserve, Return, Goto, locals, IInv, TypeOK
    <3>3. CASE Open(u) \/ Ioctl(u)
      BY <1>2, <3>3 DEF Open, Ioctl, Return, Goto, IInv, TypeOK
    <3>4. CASE GetErrno(u) \/ Close(u) \/ SetErrno(u)
      BY <1>2, <3>4 DEF GetErrno, Close, SetErrno, Return, Goto, IInv, TypeOK
    <3> QED
      BY <1>2, <3>1, <3>2, <3>3, <3>4 DEF Library
  <2> QED
    BY <2>1 DEF EntriesInv
<1>3. CASE Reserve(t)
  BY <1>3 DEF Reserve, Return, Goto, IInv, TypeOK, Marshalled
<1>4. CASE Open(t)
  BY <1>4 DEF Open, Return, Goto, IInv, TypeOK, EntriesInv
<1>5. CASE Call(t) \/ CheckArguments(t) \/ Ioctl(t) \/ GetErrno(t) \/ Close(t) \/ SetErrno(t)
  <2>1. pc'[t] \notin { "open", "ioctl" }
    BY <1>5 DEF Call, CheckArguments, Ioctl, GetErrno, Close, SetErrno, Return, Goto, IInv, TypeOK
  <2> QED
    BY <2>1
<1> QED
  BY <1>1, <1>2, <1>3, <1>4, <1>5 DEF Next, Library

\* A registration is made by the ioctl alone, out of entries, and stays as it was
\* made until its descriptor is closed.
LEMMA RegistrationStep ==
    ASSUME IInv, EntriesInv, \A f \in sources : SaysWhatWasAsked(reg[f]), Next
    PROVE  \A f \in sources' : SaysWhatWasAsked(reg'[f])
<1> SUFFICES ASSUME NEW f \in sources' PROVE SaysWhatWasAsked(reg'[f])
  OBVIOUS
<1>1. CASE f \in sources /\ reg'[f] = reg[f]
  BY <1>1
<1>2. CASE UNCHANGED <<sources, reg>>
  BY <1>2
<1>3. ASSUME NEW g, Release(g) PROVE f \in sources /\ reg'[f] = reg[f]
  BY <1>3 DEF Release, IInv, TypeOK
<1>4. ASSUME NEW t \in Threads, Ioctl(t), ~UNCHANGED <<sources, reg>>
      PROVE  SaysWhatWasAsked(reg'[f])
  <2>1. /\ pc[t] = "ioctl" /\ sources' = sources \cup {fd[t]}
        /\ reg' = [reg EXCEPT ![fd[t]] = Registration(t)]
    BY <1>4 DEF Ioctl
  <2>2. SaysWhatWasAsked(Registration(t)) /\ fd[t] \in Fds
    BY <2>1, MarshallingKeeps DEF EntriesInv, IInv, HasFd, Holding
  <2>3. f \in Fds
    BY <2>1, <2>2 DEF IInv, TypeOK
  <2>4. CASE f = fd[t]
    <3>1. reg'[f] = Registration(t)
      BY <2>1, <2>3, <2>4 DEF IInv, TypeOK
    <3> QED
      BY <2>2, <3>1
  <2>5. CASE f # fd[t]
    BY <1>1, <2>1, <2>3, <2>5 DEF IInv, TypeOK
  <2> QED
    BY <2>4, <2>5
<1>5. ASSUME NEW t \in Threads, Call(t) \/ Library(t), ~Ioctl(t), ~Close(t)
      PROVE  UNCHANGED <<sources, reg>>
  BY <1>5 DEF Library, Call, CheckArguments, Reserve, Open, GetErrno, SetErrno
<1>6. CASE \E t \in Threads : Call(t) \/ Library(t)
  <2>1. PICK t \in Threads : Call(t) \/ Library(t)
    BY <1>6
  <2>2. CASE Close(t)
    BY <1>1, <1>3, <2>2 DEF Close
  <2> QED
    BY <1>2, <1>4, <1>5, <2>1, <2>2
<1>7. CASE \E g \in Fds : AppOpen(g) \/ AppClose(g)
  BY <1>1, <1>2, <1>3, <1>7 DEF AppOpen, AppClose
<1> QED
  BY <1>6, <1>7 DEF Next

\* The kernel registers the hives and the max_sequence that the caller passed,
\* whatever the arguments and whoever else is registering.
THEOREM RegistersAsAsked == Spec => []RegisteredAsAsked
<1> DEFINE Said == \A f \in sources : SaysWhatWasAsked(reg[f])
<1>1. Init => EntriesInv /\ Said
  BY DEF Init, EntriesInv
<1>2. IInv /\ EntriesInv /\ Said /\ [Next]_vars => (EntriesInv /\ Said)'
  <2>1. CASE UNCHANGED vars
    BY <2>1 DEF vars, locals, EntriesInv
  <2>2. CASE Next
    BY <2>2, EntriesStep, RegistrationStep
  <2> QED
    BY <2>1, <2>2
<1>3. Said => RegisteredAsAsked
  BY DEF SaysWhatWasAsked, RegisteredAsAsked
<1> QED
  BY <1>1, <1>2, <1>3, Inductive, PTL DEF Spec
=============================================================================
