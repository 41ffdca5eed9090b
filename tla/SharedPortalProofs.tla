--------------------------- MODULE SharedPortalProofs ---------------------------
(***************************************************************************)
(* Proofs about SharedPortal, for any number of launches, kills, crashes   *)
(* and failing calls.                                                      *)
(***************************************************************************)
EXTENDS SharedPortal, TLAPS

\* The steps at which a launch holds the lock of the application.
Critical == {"dirs", "truncate", "name", "check", "spawn", "file", "wait", "inactive",
             "others", "stop"}

LaunchSteps == Critical \cup Over \cup Serving \cup {"lock", "remove", "relock", "cleaned"}

\* The reasons for which an instance may lose its portal.
Excuses == {"crash", "unready", "mismatch", "nameless"}

\* l has no portal yet: it looks for one, starts one, or stops what it found.
Unready(l) ==
    \/ at[l].step \in {"new", "lock", "dirs", "truncate", "name", "check", "spawn", "file",
                       "wait"}
    \/ At(l, "stop") /\ at[l].why \in {"unready", "mismatch"}

\* l has stopped the portal it found, and starts its own.
Fresh(l) ==
    \/ at[l].step \in {"dirs", "truncate", "name"} /\ at[l].why = "reset"
    \/ at[l].step \in {"spawn", "file", "wait"}

Serves(l) == at[l].step \in Serving

\* The locals of a launch and of the recovery.
LocalInv ==
    /\ \A l \in Launch :
          /\ at[l].step \in LaunchSteps
          /\ At(l, "stop") => at[l].why \in {"unready", "mismatch", "last"}
          /\ at[l].step \in {"spawn", "file"} => at[l].n \in 1..3
          /\ at[l].step # "gone" => tries[l] \in 0..1
    /\ at[Recovery].step \in {"idle", "look", "lock", "recheck", "stop"}
    /\ at[Recovery].step \in {"look", "lock", "recheck"} =>
          at[Recovery].why \in {"named", "empty"}
    /\ At(Recovery, "stop") => at[Recovery].why \in {"stale", "nameless"}

\* The lock excludes launches from each other's critical sections, and from a
\* recovery, unless that has read an empty app-id.
LockInv ==
    /\ \A l \in Launch : at[l].step \in Critical => lock = l
    /\ At(Recovery, "recheck") /\ at[Recovery].why = "named" => lock = Recovery
    /\ At(Recovery, "stop") /\ at[Recovery].why = "stale" => lock = Recovery

\* A launch is active from its record on, until the cleanup of its instance.
RecordInv ==
    \A l \in Launch : (Unready(l) /\ ~At(l, "new")) \/ Serves(l) => record[l] = "active"

\* The portal an instance was given runs, at the socket, unless it was taken
\* away for one of the excuses.
ServeInv ==
    /\ blame \in [Launch -> SUBSET Excuses]
    /\ \A l \in Launch : Serves(l) =>
          /\ using[l] \in Launch
          /\ blame[l] = {} => /\ using[l] = sock
                              /\ ProcessesOf(sock) \subseteq alive
                              /\ At(l, "running") => l \in known

\* A portal that is stopped because nobody uses it is used by nobody.
QuietInv ==
    \A p \in Process : At(p, "stop") /\ at[p].why \in {"last", "stale"} =>
        \A l \in Launch : ~Serves(l)

\* Nobody is given a portal before its launch has seen it ready.
GivenInv ==
    \A l \in Launch : Unready(l) => \A m \in Launch : using[m] # l

\* A launch binds the socket with the first process it starts.
SockInv ==
    \A l \in Launch : Unready(l) /\ at[l].step \notin {"spawn", "file", "wait"} => sock # l

\* A launch that starts a portal leaves no instance with the last one, and is
\* the only one to write pid files.
FreshInv ==
    \A l \in Launch : Fresh(l) =>
        /\ \A m \in Launch : Serves(m) => blame[m] # {}
        /\ \A k \in Kind : pid[k] \in {None, l}

\* Every process that runs has a pid file, but for the one just started.
TrackInv ==
    \A m \in Launch, k \in Kind : <<m, k>> \in alive \ strays =>
        pid[k] = m \/ (At(m, "file") /\ StartOrder[at[m].n] = k)

\* What stop_shared_portal has gone through does not run.
StopInv ==
    \A p \in Process : At(p, "stop") /\ at[p].why # "nameless" =>
        \A i \in 1 .. at[p].n - 1 : <<pid[StopOrder[i]], StopOrder[i]>> \notin alive

IInv ==
    /\ TypeOK
    /\ LocalInv
    /\ LockInv
    /\ RecordInv
    /\ ServeInv
    /\ QuietInv
    /\ GivenInv
    /\ SockInv
    /\ FreshInv
    /\ TrackInv
    /\ StopInv

-------------------------------------------------------------------------------
(***************************************************************************)
(* The moves of a process                                                  *)
(***************************************************************************)
StepNames == {"new", "lock", "dirs", "truncate", "name", "check", "spawn", "file", "wait",
              "prepared", "running", "remove", "relock", "inactive", "others", "stop",
              "cleaned", "gone", "killed", "idle", "look", "recheck"}
Whys == {"none", "reset", "unready", "mismatch", "last", "named", "empty", "stale",
         "nameless"}
Locals == [step : StepNames, n : 1..4, why : Whys]

\* p is at step s with n and w, and nobody else has moved.
Moved(p, s, n, w) ==
    /\ at' \in [Process -> Locals]
    /\ at'[p].step = s /\ at'[p].n = n /\ at'[p].why = w
    /\ \A q \in Process \ {p} : at'[q] = at[q]

USE DEF At, Serving, launches, portal, files, history

\* The effects of the operators that move a process.
LEMMA AtType == TypeOK => at \in [Process -> Locals]
  BY DEF TypeOK, Locals, StepNames, Whys

LEMMA GotoEffect ==
    ASSUME TypeOK, NEW p \in Process, NEW s \in StepNames, Goto(p, s)
    PROVE  Moved(p, s, 1, "none")
<1>1. at \in [Process -> Locals]
  BY AtType
<1>2. [step |-> s, n |-> 1, why |-> "none"] \in Locals
  BY DEF Locals, Whys
<1> QED  BY <1>1, <1>2 DEF Goto, Moved

LEMMA StopEffect ==
    ASSUME TypeOK, NEW p \in Process, NEW w \in Whys, Stop(p, w)
    PROVE  Moved(p, "stop", 1, w)
<1>1. at \in [Process -> Locals]
  BY AtType
<1>2. [step |-> "stop", n |-> 1, why |-> w] \in Locals
  BY DEF Locals, StepNames
<1> QED  BY <1>1, <1>2 DEF Stop, Moved

LEMMA AdvanceEffect ==
    ASSUME TypeOK, NEW p \in Process, NEW s \in StepNames, Advance(p, s)
    PROVE  Moved(p, s, at[p].n, at[p].why)
<1>1. at \in [Process -> Locals]
  BY AtType
<1> QED  BY <1>1 DEF Advance, Moved, Locals

\* What an error leads to.
LEMMA AbandonEffect ==
    ASSUME TypeOK, NEW l \in Launch, AbandonLaunch(l)
    PROVE  Moved(l, "gone", 1, "none")
  BY GotoEffect DEF AbandonLaunch, StepNames, Process

LEMMA CleanAgainEffect ==
    ASSUME TypeOK, NEW l \in Launch, CleanAgain(l)
    PROVE  \/ Moved(l, "remove", 1, "none") /\ tries[l] = 0
           \/ Moved(l, "gone", 1, "none")
  BY GotoEffect DEF CleanAgain, StepNames, Process

\* What the leaves below need of the types.
StateType ==
    /\ at \in [Process -> Locals] /\ lock \in Process \cup {None}
    /\ record \in [Launch -> {"none", "active", "inactive"}]
    /\ tries \in [Launch -> 0..2] /\ using \in [Launch -> Launch \cup {None}]
    /\ pid \in [Kind -> Launch \cup {None}] /\ sock \in Launch \cup {None}
    /\ blame \in [Launch -> SUBSET Excuses] /\ alive \subseteq Launch \X Kind

LEMMA StateTypes == IInv => StateType
  BY AtType DEF IInv, TypeOK, ServeInv, StateType

\* An instance that is not blamed after a portal was taken away is not using it.
LEMMA BlamedEffect ==
    ASSUME IInv, NEW portals, NEW reason, blame' = Blamed(portals, reason),
           reason \in Excuses \/ \A l \in Launch : ~Serves(l)
    PROVE  /\ blame' \in [Launch -> SUBSET Excuses]
           /\ \A l \in Launch : blame'[l] = {} =>
                 blame[l] = {} /\ (Serves(l) => using[l] \notin portals)
<1>1. blame \in [Launch -> SUBSET Excuses]
  BY DEF IInv, ServeInv
<1>2. blame' = [l \in Launch |-> IF Serves(l) /\ using[l] \in portals
                                 THEN blame[l] \cup {reason} ELSE blame[l]]
  BY DEF Blamed, Serves
<1> QED  BY <1>1, <1>2

\* A portal is stopped for one of the excuses, or when nobody uses it.
LEMMA StopReason ==
    ASSUME IInv, NEW p \in Process, At(p, "stop")
    PROVE  at[p].why \in Excuses \/ \A l \in Launch : ~Serves(l)
<1>1. at[p].why \in {"unready", "mismatch", "last", "stale", "nameless"}
  BY DEF IInv, LocalInv, Process
<1> QED  BY <1>1 DEF IInv, QuietInv, Excuses

\* StartOrder and StopOrder go through the kinds.
LEMMA Orders ==
    /\ \A n \in 1..3 : StartOrder[n] \in Kind /\ StopOrder[n] \in Kind
    /\ \A k \in Kind : \E n \in 1..3 : StopOrder[n] = k
  BY DEF StartOrder, StopOrder, Kind

\* What the constants say of the processes.
LEMMA Processes ==
    /\ Recovery \notin Launch /\ None \notin Launch /\ None # Recovery
    /\ Launch \subseteq Process /\ Recovery \in Process
    /\ \A q \in Process : q \in Launch \/ q = Recovery
  BY PortalAssumption DEF Process

-------------------------------------------------------------------------------
(***************************************************************************)
(* One lemma for each operation                                            *)
(***************************************************************************)

\* The record is written before the lock is asked for, and nobody is served yet.
LEMMA WriteRecordStep ==
    ASSUME IInv, NEW l \in Launch, WriteRecord(l)
    PROVE  IInv'
<1>1. Moved(l, "lock", 1, "none") /\ At(l, "new")
  BY GotoEffect, Processes
  DEF WriteRecord, StepNames, IInv
<1>2. StateType
  BY StateTypes
<1> USE <1>1, <1>2, Processes DEF IInv, Moved, StateType, WriteRecord
<1>3. TypeOK'
  BY DEF TypeOK, Locals, StepNames, Whys
<1>4. LocalInv' /\ LockInv'
  BY DEF LocalInv, LaunchSteps, Critical, Over, LockInv
<1>5. RecordInv' /\ QuietInv'
  BY DEF RecordInv, Unready, Serves, QuietInv, LockInv, Critical
<1>6. ServeInv' /\ FreshInv'
  BY DEF ServeInv, Serves, FreshInv, LockInv, LocalInv, Fresh, Critical
<1>7. GivenInv' /\ SockInv'
  BY DEF GivenInv, Unready, SockInv
<1>8. TrackInv' /\ StopInv'
  BY DEF TrackInv, StopInv, LocalInv
<1> QED  BY <1>3, <1>4, <1>5, <1>6, <1>7, <1>8

\* Whoever takes the lock finds nobody else in a critical section.
LEMMA LockScopeStep ==
    ASSUME IInv, NEW l \in Launch, LockScope(l)
    PROVE  IInv'
<1>1. Moved(l, "dirs", 1, "none") /\ At(l, "lock")
  BY GotoEffect, Processes
  DEF LockScope, StepNames, IInv
<1>2. StateType
  BY StateTypes
<1> USE <1>1, <1>2, Processes DEF IInv, Moved, StateType, LockScope
<1>3. TypeOK'
  BY DEF TypeOK, Locals, StepNames, Whys
<1>4. LocalInv' /\ LockInv'
  BY DEF LocalInv, LaunchSteps, Critical, Over, LockInv
<1>5. RecordInv' /\ QuietInv'
  BY DEF RecordInv, Unready, Serves, QuietInv, LockInv, Critical
<1>6. ServeInv' /\ FreshInv'
  BY DEF ServeInv, Serves, FreshInv, LockInv, LocalInv, Fresh, Critical
<1>7. GivenInv' /\ SockInv'
  BY DEF GivenInv, Unready, SockInv
<1>8. TrackInv' /\ StopInv'
  BY DEF TrackInv, StopInv, LocalInv
<1> QED  BY <1>3, <1>4, <1>5, <1>6, <1>7, <1>8

\* The directory and its app-id carry no part of the invariant but their type.
LEMMA CreateDirsStep ==
    ASSUME IInv, NEW l \in Launch, CreateDirs(l)
    PROVE  IInv'
<1>1. Moved(l, "truncate", at[l].n, at[l].why) /\ At(l, "dirs")
  BY AdvanceEffect, Processes
  DEF CreateDirs, StepNames, IInv
<1>2. StateType
  BY StateTypes
<1> USE <1>1, <1>2, Processes DEF IInv, Moved, StateType, CreateDirs
<1>3. TypeOK'
  BY DEF TypeOK, Locals, StepNames, Whys
<1>4. LocalInv' /\ LockInv'
  BY DEF LocalInv, LaunchSteps, Critical, Over, LockInv
<1>5. RecordInv' /\ QuietInv'
  BY DEF RecordInv, Unready, Serves, QuietInv, LockInv, Critical
<1>6. ServeInv' /\ FreshInv'
  BY DEF ServeInv, Serves, FreshInv, LockInv, LocalInv, Fresh, Critical
<1>7. GivenInv' /\ SockInv'
  BY DEF GivenInv, Unready, SockInv
<1>8. TrackInv' /\ StopInv'
  BY DEF TrackInv, StopInv, LocalInv
<1> QED  BY <1>3, <1>4, <1>5, <1>6, <1>7, <1>8

LEMMA TruncateIdStep ==
    ASSUME IInv, NEW l \in Launch, TruncateId(l)
    PROVE  IInv'
<1>1. /\ At(l, "truncate")
      /\ \/ /\ dir /\ appId' = "empty" /\ Moved(l, "name", at[l].n, at[l].why)
            /\ UNCHANGED <<lock, launches>>
         \/ AbandonLaunch(l) /\ Moved(l, "gone", 1, "none") /\ UNCHANGED appId
  BY AdvanceEffect, AbandonEffect, Processes
  DEF TruncateId, StepNames, IInv
<1>2. StateType
  BY StateTypes
<1> USE <1>1, <1>2, Processes DEF IInv, Moved, StateType, TruncateId, AbandonLaunch, Unlock
<1>3. TypeOK'
  BY DEF TypeOK, Locals, StepNames, Whys
<1>4. LocalInv' /\ LockInv'
  BY DEF LocalInv, LaunchSteps, Critical, Over, LockInv
<1>5. RecordInv' /\ QuietInv'
  BY DEF RecordInv, Unready, Serves, QuietInv, LockInv, Critical
<1>6. ServeInv' /\ FreshInv'
  BY DEF ServeInv, Serves, FreshInv, LockInv, LocalInv, Fresh, Critical
<1>7. GivenInv' /\ SockInv'
  BY DEF GivenInv, Unready, SockInv
<1>8. TrackInv' /\ StopInv'
  BY DEF TrackInv, StopInv, LocalInv
<1> QED  BY <1>3, <1>4, <1>5, <1>6, <1>7, <1>8

LEMMA WriteIdStep ==
    ASSUME IInv, NEW l \in Launch, WriteId(l)
    PROVE  IInv'
<1>1. /\ At(l, "name")
      /\ \/ at[l].why = "reset" /\ Moved(l, "spawn", 1, "none")
         \/ Moved(l, "check", 1, "none")
  BY GotoEffect, Processes
  DEF WriteId, StepNames, IInv
<1>2. StateType
  BY StateTypes
<1> USE <1>1, <1>2, Processes DEF IInv, Moved, StateType, WriteId
<1>3. TypeOK'
  BY DEF TypeOK, Locals, StepNames, Whys
<1>4. LocalInv' /\ LockInv'
  BY DEF LocalInv, LaunchSteps, Critical, Over, LockInv
<1>5. RecordInv' /\ QuietInv'
  BY DEF RecordInv, Unready, Serves, QuietInv, LockInv, Critical
<1>6. ServeInv' /\ FreshInv'
  BY DEF ServeInv, Serves, FreshInv, LockInv, LocalInv, Fresh, Critical
<1>7. GivenInv' /\ SockInv'
  BY DEF GivenInv, Unready, SockInv
<1>8. TrackInv' /\ StopInv'
  BY DEF TrackInv, StopInv, LocalInv
<1> QED  BY <1>3, <1>4, <1>5, <1>6, <1>7, <1>8

\* The portal at the socket is given to a launch under the lock: it runs, and its own
\* launch is past its start.
LEMMA UsePortalStep ==
    ASSUME IInv, NEW l \in Launch, CheckReady(l), Ready, using' = [using EXCEPT ![l] = sock],
           lock' = None, Goto(l, "prepared")
    PROVE  IInv'
<1>1. At(l, "check") /\ Moved(l, "prepared", 1, "none")
  BY GotoEffect, Processes
  DEF CheckReady, StepNames, IInv
<1>2. StateType
  BY StateTypes
<1> USE <1>1, <1>2, Processes DEF IInv, Moved, StateType, CheckReady
<1>3. TypeOK'
  BY DEF TypeOK, Locals, StepNames, Whys
<1>4. LocalInv' /\ LockInv'
  BY DEF LocalInv, LaunchSteps, Critical, Over, LockInv
<1>5. RecordInv' /\ QuietInv'
  BY DEF RecordInv, Unready, Serves, QuietInv, LockInv, Critical, LocalInv
<1>6. ServeInv' /\ FreshInv'
  BY DEF ServeInv, Serves, Ready, FreshInv, LockInv, LocalInv, Fresh, Critical
<1>7. GivenInv' /\ SockInv'
  BY DEF GivenInv, Unready, SockInv, LockInv, Critical, Ready
<1>8. TrackInv' /\ StopInv'
  BY DEF TrackInv, StopInv, LocalInv
<1> QED  BY <1>3, <1>4, <1>5, <1>6, <1>7, <1>8

\* A portal that is not ready, or not the right one, is about to be stopped.
LEMMA StopPortalStep ==
    ASSUME IInv, NEW l \in Launch, CheckReady(l), Stop(l, IF Ready THEN "mismatch" ELSE "unready"),
           UNCHANGED <<using, lock>>
    PROVE  IInv'
<1>1. /\ At(l, "check")
      /\ Moved(l, "stop", 1, "mismatch") \/ Moved(l, "stop", 1, "unready")
  BY StopEffect, Processes
  DEF CheckReady, Whys, StepNames, IInv
<1>2. StateType
  BY StateTypes
<1> USE <1>1, <1>2, Processes DEF IInv, Moved, StateType, CheckReady
<1>3. TypeOK'
  BY DEF TypeOK, Locals, StepNames, Whys
<1>4. LocalInv' /\ LockInv'
  BY DEF LocalInv, LaunchSteps, Critical, Over, LockInv
<1>5. RecordInv' /\ QuietInv'
  BY DEF RecordInv, Unready, Serves, QuietInv, LockInv, Critical
<1>6. ServeInv' /\ FreshInv'
  BY DEF ServeInv, Serves, FreshInv, LockInv, LocalInv, Fresh, Critical
<1>7. GivenInv' /\ SockInv'
  BY DEF GivenInv, Unready, SockInv
<1>8. TrackInv' /\ StopInv'
  BY DEF TrackInv, StopInv, LocalInv
<1> QED  BY <1>3, <1>4, <1>5, <1>6, <1>7, <1>8

\* The first process binds the socket, the second forgets the sandboxes: no instance
\* that is not blamed is left then.
LEMMA SpawnNextStep ==
    ASSUME IInv, NEW l \in Launch, SpawnNext(l)
    PROVE  IInv'
<1>1. /\ At(l, "spawn") /\ StartOrder[at[l].n] \in Kind
      /\ \/ /\ Moved(l, "file", at[l].n, at[l].why)
            /\ alive' = alive \cup {<<l, StartOrder[at[l].n]>>}
            /\ UNCHANGED <<lock, launches>>
         \/ AbandonLaunch(l) /\ Moved(l, "gone", 1, "none") /\ UNCHANGED <<alive, known, dir, sock>>
  BY AdvanceEffect, AbandonEffect, Orders, Processes
  DEF SpawnNext, LocalInv, StepNames, IInv
<1>2. StateType
  BY StateTypes
<1> USE <1>1, <1>2, Processes DEF IInv, Moved, StateType, SpawnNext, AbandonLaunch, Unlock
<1>3. TypeOK'
  <2>1. alive' \subseteq Launch \X Kind
    BY DEF TypeOK
  <2>2. dir' \in BOOLEAN /\ (~dir' => appId' = "none")
    BY DEF TypeOK
  <2>3. sock' \in Launch \cup {None} /\ known' \subseteq Launch
    BY DEF TypeOK
  <2>4. lock' \in Process \cup {None} /\ record' \in [Launch -> {"none", "active", "inactive"}]
    OBVIOUS
  <2> QED  BY <2>1, <2>2, <2>3, <2>4 DEF TypeOK, Locals, StepNames, Whys
<1>4. LocalInv' /\ LockInv'
  BY DEF LocalInv, LaunchSteps, Critical, Over, LockInv
<1>5. RecordInv' /\ QuietInv'
  BY DEF RecordInv, Unready, Serves, QuietInv, LockInv, Critical
<1>6. ServeInv' /\ FreshInv'
  BY DEF ServeInv, Serves, FreshInv, Fresh, LockInv, LocalInv, Critical
<1>7. GivenInv' /\ SockInv'
  BY DEF GivenInv, Unready, SockInv
<1>8. TrackInv' /\ StopInv'
  BY DEF TrackInv, StopInv, LocalInv, LockInv, Critical
<1> QED  BY <1>3, <1>4, <1>5, <1>6, <1>7, <1>8

\* The processes that are ended belong to a portal nobody was given.
LEMMA SpawnFailsStep ==
    ASSUME IInv, NEW l \in Launch, SpawnFails(l)
    PROVE  IInv'
<1>1. At(l, "spawn") /\ AbandonLaunch(l) /\ Moved(l, "gone", 1, "none")
  BY AbandonEffect, Processes
  DEF SpawnFails, StepNames, IInv
<1>2. StateType
  BY StateTypes
<1> USE <1>1, <1>2, Processes DEF IInv, Moved, StateType, SpawnFails, AbandonLaunch, Unlock
<1>3. TypeOK'
  BY PortalAssumption DEF TypeOK, Locals, StepNames, Whys, Fault
<1>4. LocalInv' /\ LockInv'
  BY DEF LocalInv, LaunchSteps, Critical, Over, LockInv
<1>5. RecordInv' /\ QuietInv'
  BY DEF RecordInv, Unready, Serves, QuietInv, LockInv, Critical
<1>6. ServeInv' /\ FreshInv'
  BY DEF ServeInv, Serves, GivenInv, Unready, ProcessesOf, FreshInv, LockInv, LocalInv,
         Fresh, Critical
<1>7. GivenInv' /\ SockInv'
  BY DEF GivenInv, Unready, SockInv
<1>8. TrackInv' /\ StopInv'
  BY DEF TrackInv, StopInv, LocalInv
<1> QED  BY <1>3, <1>4, <1>5, <1>6, <1>7, <1>8

\* The pid file is written over no other, or its process is lost.
LEMMA WritePidStep ==
    ASSUME IInv, NEW l \in Launch, WritePid(l)
    PROVE  IInv'
<1>1. /\ At(l, "file")
      /\ \/ /\ \/ Moved(l, "wait", 1, "none")
               \/ at[l].n # 3 /\ Moved(l, "spawn", at[l].n + 1, at[l].why)
            /\ pid' = [pid EXCEPT ![StartOrder[at[l].n]] = l] /\ StartOrder[at[l].n] \in Kind
            /\ UNCHANGED <<lock, launches, strays>>
         \/ /\ AbandonLaunch(l) /\ Moved(l, "gone", 1, "none") /\ UNCHANGED pid
            /\ strays' = strays \cup (alive \cap ProcessesOf(l))
  BY GotoEffect, AbandonEffect, AtType, Orders, Processes
  DEF WritePid, Moved, Locals, LocalInv, StepNames, IInv
<1>2. StateType
  BY StateTypes
<1> USE <1>1, <1>2, Processes DEF IInv, Moved, StateType, WritePid, AbandonLaunch, Unlock
<1>3. TypeOK'
  <2>1. pid' \in [Kind -> Launch \cup {None}]
    OBVIOUS
  <2>2. strays' \subseteq Launch \X Kind
    BY DEF TypeOK
  <2>4. lock' \in Process \cup {None} /\ record' \in [Launch -> {"none", "active", "inactive"}]
    OBVIOUS
  <2> QED  BY <2>1, <2>2, <2>4 DEF TypeOK, Locals, StepNames, Whys
<1>4. LocalInv' /\ LockInv'
  BY DEF LocalInv, LaunchSteps, Critical, Over, LockInv
<1>5. RecordInv' /\ QuietInv'
  BY DEF RecordInv, Unready, Serves, QuietInv, LockInv, Critical
<1>6. ServeInv' /\ FreshInv'
  BY DEF ServeInv, Serves, FreshInv, LockInv, LocalInv, Fresh, Critical
<1>7. GivenInv' /\ SockInv'
  BY DEF GivenInv, Unready, SockInv
<1>8. TrackInv'
  <2>1. \A m \in Launch : At(m, "file") => m = l
    BY DEF LockInv, Critical
  <2>2. \A k \in Kind : pid[k] \in {None, l}
    BY DEF FreshInv, Fresh
  <2>3. \A m \in Launch, k \in Kind :
           <<m, k>> \in alive \ strays => pid[k] = m \/ (m = l /\ k = StartOrder[at[l].n])
    BY <2>1 DEF TrackInv
  <2>4. CASE pid' = [pid EXCEPT ![StartOrder[at[l].n]] = l] /\ UNCHANGED strays
    BY <2>2, <2>3, <2>4 DEF TrackInv
  <2>5. CASE UNCHANGED pid /\ strays' = strays \cup (alive \cap ProcessesOf(l))
    BY <2>1, <2>5 DEF TrackInv, ProcessesOf
  <2> QED  BY <2>4, <2>5
<1>9. StopInv'
  BY DEF StopInv, LocalInv, LockInv, Critical
<1> QED  BY <1>3, <1>4, <1>5, <1>6, <1>7, <1>8, <1>9

\* A launch gives itself its portal, or ends it.
LEMMA WaitForPortalStep ==
    ASSUME IInv, NEW l \in Launch, WaitForPortal(l)
    PROVE  IInv'
<1>1. /\ At(l, "wait")
      /\ \/ /\ Ready /\ sock = l /\ Moved(l, "prepared", 1, "none") /\ lock' = None
            /\ using' = [using EXCEPT ![l] = l] /\ UNCHANGED <<launches, alive, faults>>
         \/ /\ AbandonLaunch(l) /\ Moved(l, "gone", 1, "none")
            /\ alive' = alive \ ProcessesOf(l) /\ UNCHANGED using
  BY GotoEffect, AbandonEffect, Processes
  DEF WaitForPortal, StepNames, IInv
<1>2. StateType
  BY StateTypes
<1> USE <1>1, <1>2, Processes DEF IInv, Moved, StateType, WaitForPortal, AbandonLaunch,
        Unlock
<1>3. TypeOK'
  BY PortalAssumption DEF TypeOK, Locals, StepNames, Whys, Fault
<1>4. LocalInv' /\ LockInv'
  BY DEF LocalInv, LaunchSteps, Critical, Over, LockInv
<1>5. RecordInv' /\ QuietInv'
  BY DEF RecordInv, Unready, Serves, QuietInv, LockInv, Critical, LocalInv
<1>6. ServeInv' /\ FreshInv'
  BY DEF ServeInv, Serves, GivenInv, Unready, Ready, ProcessesOf, FreshInv, LockInv,
         LocalInv, Fresh, Critical
<1>7. GivenInv' /\ SockInv'
  BY DEF GivenInv, Unready, SockInv
<1>8. TrackInv' /\ StopInv'
  BY DEF TrackInv, StopInv, LocalInv
<1> QED  BY <1>3, <1>4, <1>5, <1>6, <1>7, <1>8

\* The rest of the life of an instance, which shares only known with the others.
LEMMA PrepareFailsStep ==
    ASSUME IInv, NEW l \in Launch, PrepareFails(l)
    PROVE  IInv'
<1>1. At(l, "prepared") /\ AbandonLaunch(l) /\ Moved(l, "gone", 1, "none")
  BY AbandonEffect, Processes
  DEF PrepareFails, StepNames, IInv
<1>2. StateType
  BY StateTypes
<1> USE <1>1, <1>2, Processes DEF IInv, Moved, StateType, PrepareFails, AbandonLaunch,
        Unlock, Release
<1>3. TypeOK'
  BY PortalAssumption DEF TypeOK, Locals, StepNames, Whys, Fault
<1>4. LocalInv' /\ LockInv'
  BY DEF LocalInv, LaunchSteps, Critical, Over, LockInv
<1>5. RecordInv' /\ QuietInv'
  BY DEF RecordInv, Unready, Serves, QuietInv, LockInv, Critical
<1>6. ServeInv' /\ FreshInv'
  BY DEF ServeInv, Serves, FreshInv, LockInv, LocalInv, Fresh, Critical
<1>7. GivenInv' /\ SockInv'
  BY DEF GivenInv, Unready, SockInv
<1>8. TrackInv' /\ StopInv'
  BY DEF TrackInv, StopInv, LocalInv
<1> QED  BY <1>3, <1>4, <1>5, <1>6, <1>7, <1>8

LEMMA AttachSandboxStep ==
    ASSUME IInv, NEW l \in Launch, AttachSandbox(l)
    PROVE  IInv'
<1>1. /\ At(l, "prepared")
      /\ \/ Moved(l, "running", 1, "none") /\ known' = known \cup {l} /\ UNCHANGED <<using, blame>>
         \/ Moved(l, "remove", 1, "none") /\ Release(l) /\ UNCHANGED known
  BY GotoEffect, Processes
  DEF AttachSandbox, StepNames, IInv
<1>2. StateType
  BY StateTypes
<1> USE <1>1, <1>2, Processes DEF IInv, Moved, StateType, AttachSandbox, Release
<1>3. TypeOK'
  BY DEF TypeOK, Locals, StepNames, Whys
<1>4. LocalInv' /\ LockInv'
  BY DEF LocalInv, LaunchSteps, Critical, Over, LockInv
<1>5. RecordInv' /\ QuietInv'
  BY DEF RecordInv, Unready, Serves, QuietInv, LockInv, Critical
<1>6. ServeInv' /\ FreshInv'
  BY DEF ServeInv, Serves, FreshInv, LockInv, LocalInv, Fresh, Critical
<1>7. GivenInv' /\ SockInv'
  BY DEF GivenInv, Unready, SockInv
<1>8. TrackInv' /\ StopInv'
  BY DEF TrackInv, StopInv, LocalInv
<1> QED  BY <1>3, <1>4, <1>5, <1>6, <1>7, <1>8

LEMMA ApplicationEndsStep ==
    ASSUME IInv, NEW l \in Launch, ApplicationEnds(l)
    PROVE  IInv'
<1>1. At(l, "running") /\ Moved(l, "remove", 1, "none")
  BY GotoEffect, Processes
  DEF ApplicationEnds, StepNames, IInv
<1>2. StateType
  BY StateTypes
<1> USE <1>1, <1>2, Processes DEF IInv, Moved, StateType, ApplicationEnds, Release
<1>3. TypeOK'
  BY DEF TypeOK, Locals, StepNames, Whys
<1>4. LocalInv' /\ LockInv'
  BY DEF LocalInv, LaunchSteps, Critical, Over, LockInv
<1>5. RecordInv' /\ QuietInv'
  BY DEF RecordInv, Unready, Serves, QuietInv, LockInv, Critical
<1>6. ServeInv' /\ FreshInv'
  BY DEF ServeInv, Serves, FreshInv, LockInv, LocalInv, Fresh, Critical
<1>7. GivenInv' /\ SockInv'
  BY DEF GivenInv, Unready, SockInv
<1>8. TrackInv' /\ StopInv'
  BY DEF TrackInv, StopInv, LocalInv
<1> QED  BY <1>3, <1>4, <1>5, <1>6, <1>7, <1>8

LEMMA RemoveSandboxStep ==
    ASSUME IInv, NEW l \in Launch, RemoveSandbox(l)
    PROVE  IInv'
<1>1. /\ At(l, "remove")
      /\ \/ /\ Moved(l, "relock", 1, "none") /\ known' = known \ {l}
            /\ UNCHANGED <<lock, launches>>
         \/ /\ CleanAgain(l) /\ UNCHANGED known
            /\ \/ Moved(l, "remove", 1, "none") /\ tries[l] = 0
               \/ Moved(l, "gone", 1, "none")
  BY GotoEffect, CleanAgainEffect, Processes
  DEF RemoveSandbox, StepNames, IInv
<1>2. StateType
  BY StateTypes
<1> USE <1>1, <1>2, Processes DEF IInv, Moved, StateType, RemoveSandbox, CleanAgain, Unlock
<1>3. TypeOK'
  BY DEF TypeOK, Locals, StepNames, Whys, LocalInv
<1>4. LocalInv' /\ LockInv'
  BY DEF LocalInv, LaunchSteps, Critical, Over, LockInv
<1>5. RecordInv' /\ QuietInv'
  BY DEF RecordInv, Unready, Serves, QuietInv, LockInv, Critical
<1>6. ServeInv' /\ FreshInv'
  BY DEF ServeInv, Serves, FreshInv, LockInv, LocalInv, Fresh, Critical
<1>7. GivenInv' /\ SockInv'
  BY DEF GivenInv, Unready, SockInv
<1>8. TrackInv' /\ StopInv'
  BY DEF TrackInv, StopInv, LocalInv
<1> QED  BY <1>3, <1>4, <1>5, <1>6, <1>7, <1>8

\* The cleanup of an instance, up to the decision to stop the portal: no other launch
\* is active, so none is served.
LEMMA RelockScopeStep ==
    ASSUME IInv, NEW l \in Launch, RelockScope(l)
    PROVE  IInv'
<1>1. Moved(l, "inactive", 1, "none") /\ At(l, "relock")
  BY GotoEffect, Processes
  DEF RelockScope, StepNames, IInv
<1>2. StateType
  BY StateTypes
<1> USE <1>1, <1>2, Processes DEF IInv, Moved, StateType, RelockScope
<1>3. TypeOK'
  BY DEF TypeOK, Locals, StepNames, Whys
<1>4. LocalInv' /\ LockInv'
  BY DEF LocalInv, LaunchSteps, Critical, Over, LockInv
<1>5. RecordInv' /\ QuietInv'
  BY DEF RecordInv, Unready, Serves, QuietInv, LockInv, Critical
<1>6. ServeInv' /\ FreshInv'
  BY DEF ServeInv, Serves, FreshInv, LockInv, LocalInv, Fresh, Critical
<1>7. GivenInv' /\ SockInv'
  BY DEF GivenInv, Unready, SockInv
<1>8. TrackInv' /\ StopInv'
  BY DEF TrackInv, StopInv, LocalInv
<1> QED  BY <1>3, <1>4, <1>5, <1>6, <1>7, <1>8

LEMMA MarkInactiveStep ==
    ASSUME IInv, NEW l \in Launch, MarkInactive(l)
    PROVE  IInv'
<1>1. Moved(l, "others", 1, "none") /\ At(l, "inactive")
  BY GotoEffect, Processes
  DEF MarkInactive, StepNames, IInv
<1>2. StateType
  BY StateTypes
<1> USE <1>1, <1>2, Processes DEF IInv, Moved, StateType, MarkInactive
<1>3. TypeOK'
  BY DEF TypeOK, Locals, StepNames, Whys
<1>4. LocalInv' /\ LockInv'
  BY DEF LocalInv, LaunchSteps, Critical, Over, LockInv
<1>5. RecordInv' /\ QuietInv'
  BY DEF RecordInv, Unready, Serves, QuietInv, LockInv, Critical
<1>6. ServeInv' /\ FreshInv'
  BY DEF ServeInv, Serves, FreshInv, LockInv, LocalInv, Fresh, Critical
<1>7. GivenInv' /\ SockInv'
  BY DEF GivenInv, Unready, SockInv
<1>8. TrackInv' /\ StopInv'
  BY DEF TrackInv, StopInv, LocalInv
<1> QED  BY <1>3, <1>4, <1>5, <1>6, <1>7, <1>8

LEMMA AskOthersStep ==
    ASSUME IInv, NEW l \in Launch, AskOthers(l)
    PROVE  IInv'
<1>1. /\ At(l, "others")
      /\ \/ Moved(l, "cleaned", 1, "none") /\ lock' = None
         \/ /\ Moved(l, "stop", 1, "last") /\ UNCHANGED lock
            /\ \A m \in Launch \ {l} : ~Active(m)
  BY GotoEffect, StopEffect, Processes
  DEF AskOthers, Whys, StepNames, IInv
<1>2. StateType
  BY StateTypes
<1> USE <1>1, <1>2, Processes DEF IInv, Moved, StateType, AskOthers
<1>3. TypeOK'
  BY DEF TypeOK, Locals, StepNames, Whys
<1>4. LocalInv' /\ LockInv'
  BY DEF LocalInv, LaunchSteps, Critical, Over, LockInv
<1>5. RecordInv' /\ QuietInv'
  BY DEF RecordInv, Unready, Serves, QuietInv, LockInv, Critical, Active, Over
<1>6. ServeInv' /\ FreshInv'
  BY DEF ServeInv, Serves, FreshInv, LockInv, LocalInv, Fresh, Critical
<1>7. GivenInv' /\ SockInv'
  BY DEF GivenInv, Unready, SockInv
<1>8. TrackInv' /\ StopInv'
  BY DEF TrackInv, StopInv, LocalInv
<1> QED  BY <1>3, <1>4, <1>5, <1>6, <1>7, <1>8

LEMMA FinishStep ==
    ASSUME IInv, NEW l \in Launch, Finish(l)
    PROVE  IInv'
<1>1. Moved(l, "gone", 1, "none") /\ At(l, "cleaned")
  BY GotoEffect, Processes
  DEF Finish, StepNames, IInv
<1>2. StateType
  BY StateTypes
<1> USE <1>1, <1>2, Processes DEF IInv, Moved, StateType, Finish
<1>3. TypeOK'
  BY DEF TypeOK, Locals, StepNames, Whys
<1>4. LocalInv' /\ LockInv'
  BY DEF LocalInv, LaunchSteps, Critical, Over, LockInv
<1>5. RecordInv' /\ QuietInv'
  BY DEF RecordInv, Unready, Serves, QuietInv, LockInv, Critical
<1>6. ServeInv' /\ FreshInv'
  BY DEF ServeInv, Serves, FreshInv, LockInv, LocalInv, Fresh, Critical
<1>7. GivenInv' /\ SockInv'
  BY DEF GivenInv, Unready, SockInv
<1>8. TrackInv' /\ StopInv'
  BY DEF TrackInv, StopInv, LocalInv
<1> QED  BY <1>3, <1>4, <1>5, <1>6, <1>7, <1>8

\* The recovery.  It has the lock, or has read an empty app-id.
LEMMA ReadIdStep ==
    ASSUME IInv, ReadId
    PROVE  IInv'
<1>1. /\ At(Recovery, "idle")
      /\ Moved(Recovery, "look", 1, "named") \/ Moved(Recovery, "look", 1, "empty")
  BY AtType, Processes
  DEF ReadId, Moved, Locals, Whys, StepNames, IInv
<1>2. StateType
  BY StateTypes
<1> USE <1>1, <1>2, Processes DEF IInv, Moved, StateType, ReadId
<1>3. TypeOK'
  BY DEF TypeOK, Locals, StepNames, Whys
<1>4. LocalInv' /\ LockInv'
  BY DEF LocalInv, LaunchSteps, Critical, Over, LockInv
<1>5. RecordInv' /\ QuietInv'
  BY DEF RecordInv, Unready, Serves, QuietInv, LockInv, Critical
<1>6. ServeInv' /\ FreshInv'
  BY DEF ServeInv, Serves, FreshInv, LockInv, LocalInv, Fresh, Critical
<1>7. GivenInv' /\ SockInv'
  BY DEF GivenInv, Unready, SockInv
<1>8. TrackInv' /\ StopInv'
  BY DEF TrackInv, StopInv, LocalInv
<1> QED  BY <1>3, <1>4, <1>5, <1>6, <1>7, <1>8

LEMMA LookActiveStep ==
    ASSUME IInv, LookActive
    PROVE  IInv'
<1>1. /\ At(Recovery, "look")
      /\ \/ Moved(Recovery, "lock", at[Recovery].n, at[Recovery].why)
         \/ Moved(Recovery, "idle", 1, "none")
  BY GotoEffect, AdvanceEffect, Processes
  DEF LookActive, StepNames, IInv
<1>2. StateType
  BY StateTypes
<1> USE <1>1, <1>2, Processes DEF IInv, Moved, StateType, LookActive
<1>3. TypeOK'
  BY DEF TypeOK, Locals, StepNames, Whys
<1>4. LocalInv' /\ LockInv'
  BY DEF LocalInv, LaunchSteps, Critical, Over, LockInv
<1>5. RecordInv' /\ QuietInv'
  BY DEF RecordInv, Unready, Serves, QuietInv, LockInv, Critical
<1>6. ServeInv' /\ FreshInv'
  BY DEF ServeInv, Serves, FreshInv, LockInv, LocalInv, Fresh, Critical
<1>7. GivenInv' /\ SockInv'
  BY DEF GivenInv, Unready, SockInv
<1>8. TrackInv' /\ StopInv'
  BY DEF TrackInv, StopInv, LocalInv
<1> QED  BY <1>3, <1>4, <1>5, <1>6, <1>7, <1>8

LEMMA LockReadStep ==
    ASSUME IInv, LockRead
    PROVE  IInv'
<1>1. /\ At(Recovery, "lock")
      /\ Moved(Recovery, "recheck", at[Recovery].n, at[Recovery].why)
  BY AdvanceEffect, Processes
  DEF LockRead, StepNames, IInv
<1>2. StateType
  BY StateTypes
<1> USE <1>1, <1>2, Processes DEF IInv, Moved, StateType, LockRead
<1>3. TypeOK'
  BY DEF TypeOK, Locals, StepNames, Whys
<1>4. LocalInv' /\ LockInv'
  BY DEF LocalInv, LaunchSteps, Critical, Over, LockInv
<1>5. RecordInv' /\ QuietInv'
  BY DEF RecordInv, Unready, Serves, QuietInv, LockInv, Critical
<1>6. ServeInv' /\ FreshInv'
  BY DEF ServeInv, Serves, FreshInv, LockInv, LocalInv, Fresh, Critical
<1>7. GivenInv' /\ SockInv'
  BY DEF GivenInv, Unready, SockInv
<1>8. TrackInv' /\ StopInv'
  BY DEF TrackInv, StopInv, LocalInv
<1> QED  BY <1>3, <1>4, <1>5, <1>6, <1>7, <1>8

\* The recovery that has the lock sees no active launch, so none is served.
LEMMA RecheckStep ==
    ASSUME IInv, Recheck
    PROVE  IInv'
<1>1. /\ At(Recovery, "recheck")
      /\ \/ /\ at[Recovery].why = "named" /\ Moved(Recovery, "stop", 1, "stale")
            /\ UNCHANGED lock /\ \A l \in Launch : ~Active(l)
         \/ /\ at[Recovery].why # "named" /\ Moved(Recovery, "stop", 1, "nameless")
            /\ UNCHANGED lock
         \/ Moved(Recovery, "idle", 1, "none") /\ Unlock(Recovery)
  BY GotoEffect, StopEffect, Processes
  DEF Recheck, Whys, Stale, StepNames, IInv
<1>2. StateType
  BY StateTypes
<1> USE <1>1, <1>2, Processes DEF IInv, Moved, StateType, Recheck, Unlock
<1>3. TypeOK'
  BY DEF TypeOK, Locals, StepNames, Whys
<1>4. LocalInv' /\ LockInv'
  BY DEF LocalInv, LaunchSteps, Critical, Over, LockInv
<1>5. RecordInv' /\ QuietInv'
  BY DEF RecordInv, Unready, Serves, QuietInv, LockInv, Critical, Active, Over
<1>6. ServeInv' /\ FreshInv'
  BY DEF ServeInv, Serves, FreshInv, LockInv, LocalInv, Fresh, Critical
<1>7. GivenInv' /\ SockInv'
  BY DEF GivenInv, Unready, SockInv
<1>8. TrackInv' /\ StopInv'
  BY DEF TrackInv, StopInv, LocalInv
<1> QED  BY <1>3, <1>4, <1>5, <1>6, <1>7, <1>8

\* A launch that is killed leaves the lock, and the process it has just started.
LEMMA KillLaunchStep ==
    ASSUME IInv, NEW l \in Launch, KillLaunch(l)
    PROVE  IInv'
<1>1. Moved(l, "killed", 1, "none")
  BY GotoEffect, Processes
  DEF KillLaunch, StepNames, IInv
<1>2. StateType
  BY StateTypes
<1> USE <1>1, <1>2, Processes DEF IInv, Moved, StateType, KillLaunch, Unlock, Release
<1>3. TypeOK'
  BY PortalAssumption DEF TypeOK, Locals, StepNames, Whys, Fault
<1>4. LocalInv' /\ LockInv'
  BY DEF LocalInv, LaunchSteps, Critical, Over, LockInv
<1>5. RecordInv' /\ QuietInv'
  BY DEF RecordInv, Unready, Serves, QuietInv, LockInv, Critical
<1>6. ServeInv' /\ FreshInv'
  BY DEF ServeInv, Serves, FreshInv, LockInv, LocalInv, Fresh, Critical
<1>7. GivenInv' /\ SockInv'
  BY DEF GivenInv, Unready, SockInv
<1>8. TrackInv' /\ StopInv'
  BY DEF TrackInv, StopInv, LocalInv
<1> QED  BY <1>3, <1>4, <1>5, <1>6, <1>7, <1>8

LEMMA KillRecoveryStep ==
    ASSUME IInv, KillRecovery
    PROVE  IInv'
<1>1. Moved(Recovery, "idle", 1, "none")
  BY GotoEffect, Processes
  DEF KillRecovery, EndCommand, StepNames, IInv
<1>2. StateType
  BY StateTypes
<1> USE <1>1, <1>2, Processes DEF IInv, Moved, StateType, KillRecovery, EndCommand, Unlock
<1>3. TypeOK'
  BY PortalAssumption DEF TypeOK, Locals, StepNames, Whys, Fault
<1>4. LocalInv' /\ LockInv'
  BY DEF LocalInv, LaunchSteps, Critical, Over, LockInv
<1>5. RecordInv' /\ QuietInv'
  BY DEF RecordInv, Unready, Serves, QuietInv, LockInv, Critical
<1>6. ServeInv' /\ FreshInv'
  BY DEF ServeInv, Serves, FreshInv, LockInv, LocalInv, Fresh, Critical
<1>7. GivenInv' /\ SockInv'
  BY DEF GivenInv, Unready, SockInv
<1>8. TrackInv' /\ StopInv'
  BY DEF TrackInv, StopInv, LocalInv
<1> QED  BY <1>3, <1>4, <1>5, <1>6, <1>7, <1>8

\* stop_shared_portal: an instance whose portal loses a process is blamed ...
LEMMA TerminateStep ==
    ASSUME IInv, NEW p \in Process, Terminate(p)
    PROVE  IInv'
<1>1. /\ At(p, "stop") /\ at[p].n \in 1..3 /\ Moved(p, "stop", at[p].n + 1, at[p].why)
      /\ StopOrder[at[p].n] \in Kind
  BY AtType, Orders, Processes
  DEF Terminate, Moved, Locals, StepNames, IInv
<1>b. /\ blame' \in [Launch -> SUBSET Excuses]
      /\ \A l \in Launch : blame'[l] = {} =>
            /\ blame[l] = {}
            /\ Serves(l) => \A q \in alive \ alive' : using[l] # q[1]
  <2> DEFINE k == StopOrder[at[p].n]
             portals == {q[1] : q \in alive \cap {<<pid[k], k>>}}
  <2>1. blame' = Blamed(portals, at[p].why) /\ alive' = alive \ (alive \cap {<<pid[k], k>>})
    BY DEF Terminate
  <2>2. \A q \in alive \ alive' : q[1] \in portals
    BY <2>1
  <2> HIDE DEF portals
  <2> QED  BY <1>1, <2>1, <2>2, BlamedEffect, StopReason
<1>2. StateType
  BY StateTypes
<1> USE <1>1, <1>b, <1>2, Processes DEF IInv, Moved, StateType, Terminate
<1>3. TypeOK'
  BY DEF TypeOK, Locals, StepNames, Whys
<1>4. LocalInv' /\ LockInv'
  BY DEF LocalInv, LaunchSteps, Critical, Over, LockInv
<1>5. RecordInv' /\ QuietInv'
  BY DEF RecordInv, Unready, Serves, QuietInv, LockInv, Critical
<1>6. ServeInv'
  <2> SUFFICES ASSUME NEW l \in Launch, Serves(l)'
               PROVE  /\ using'[l] \in Launch
                      /\ blame'[l] = {} => /\ using'[l] = sock'
                                           /\ ProcessesOf(sock') \subseteq alive'
                                           /\ At(l, "running")' => l \in known'
    BY DEF ServeInv
  <2>1. Serves(l) /\ using[l] \in Launch /\ at'[l].step = at[l].step
    BY DEF ServeInv, Serves
  <2>2. ASSUME blame'[l] = {}
        PROVE  using[l] = sock /\ ProcessesOf(sock) \subseteq alive'
    <3>1. using[l] = sock /\ ProcessesOf(sock) \subseteq alive
      BY <2>1, <2>2 DEF ServeInv
    <3>2. \A q \in ProcessesOf(sock) : q[1] = sock
      BY DEF ProcessesOf
    <3> QED  BY <2>1, <2>2, <3>1, <3>2
  <2> QED  BY <2>1, <2>2 DEF ServeInv
<1>7. FreshInv'
  BY DEF FreshInv, LockInv, LocalInv, Fresh, Serves, Critical
<1>8. GivenInv' /\ SockInv'
  BY DEF GivenInv, Unready, SockInv
<1>9. TrackInv'
  BY DEF TrackInv
<1>10. StopInv'
  BY DEF StopInv, LocalInv
<1> QED  BY <1>3, <1>4, <1>5, <1>6, <1>7, <1>8, <1>9, <1>10

\* ... and so is one whose portal loses its socket; nothing runs that had a pid file,
\* unless the application was not locked.
LEMMA RemoveSharedStep ==
    ASSUME IInv, NEW p \in Process, RemoveShared(p)
    PROVE  IInv'
<1>1. /\ At(p, "stop") /\ at[p].n = 4
      /\ \/ /\ at[p].why \in {"unready", "mismatch"} /\ p \in Launch
            /\ Moved(p, "dirs", 1, "reset") /\ UNCHANGED lock
         \/ at[p].why = "last" /\ p \in Launch /\ Moved(p, "cleaned", 1, "none") /\ Unlock(p)
         \/ /\ at[p].why \in {"stale", "nameless"} /\ p = Recovery
            /\ Moved(p, "idle", 1, "none") /\ Unlock(p)
  BY GotoEffect, AtType, Processes
  DEF RemoveShared, Moved, Locals, Whys, LocalInv, StepNames, IInv
<1>b. /\ blame' \in [Launch -> SUBSET Excuses]
      /\ \A l \in Launch : blame'[l] = {} => blame[l] = {} /\ (Serves(l) => using[l] # sock)
  <2>1. blame' = Blamed({sock}, at[p].why)
    BY DEF RemoveShared
  <2> QED  BY <1>1, <2>1, BlamedEffect, StopReason
<1>2. StateType
  BY StateTypes
<1> USE <1>1, <1>b, <1>2, Processes DEF IInv, Moved, StateType, RemoveShared, Unlock
<1>3. TypeOK'
  BY DEF TypeOK, Locals, StepNames, Whys
<1>4. LocalInv' /\ LockInv'
  BY DEF LocalInv, LaunchSteps, Critical, Over, LockInv
<1>5. RecordInv' /\ QuietInv'
  BY DEF RecordInv, Unready, Serves, QuietInv, LockInv, Critical
<1>6. ServeInv'
  <2>1. \A m \in Launch : Serves(m) => blame'[m] # {}
    BY DEF ServeInv
  <2>2. \A m \in Launch : Serves(m)' => Serves(m)
    BY DEF Serves
  <2> QED  BY <2>1, <2>2 DEF ServeInv
<1>7. FreshInv'
  <2>1. \A m \in Launch : Serves(m)' => blame'[m] # {}
    BY DEF ServeInv, Serves
  <2>2. \A k \in Kind : pid'[k] = None
    OBVIOUS
  <2> QED  BY <2>1, <2>2 DEF FreshInv
<1>8. GivenInv' /\ SockInv'
  BY DEF GivenInv, Unready, SockInv
<1>9. TrackInv'
  <2>1. CASE at[p].why = "nameless"
    BY <2>1 DEF TrackInv
  <2>2. CASE at[p].why # "nameless"
    <3>1. \A k \in Kind : <<pid[k], k>> \notin alive
      BY <2>2, Orders DEF StopInv
    <3> QED  BY <2>2, <3>1 DEF TrackInv
  <2> QED  BY <2>1, <2>2
<1>10. StopInv'
  BY DEF StopInv, LocalInv
<1> QED  BY <1>3, <1>4, <1>5, <1>6, <1>7, <1>8, <1>9, <1>10

\* An error in it leaves what has been stopped.
LEMMA StopFailsStep ==
    ASSUME IInv, NEW p \in Process, StopFails(p)
    PROVE  IInv'
<1>1. /\ At(p, "stop")
      /\ \/ p \in Launch /\ AbandonLaunch(p) /\ Moved(p, "gone", 1, "none")
         \/ /\ p \in Launch /\ CleanAgain(p) /\ at[p].why = "last"
            /\ \/ Moved(p, "remove", 1, "none") /\ tries[p] = 0
               \/ Moved(p, "gone", 1, "none")
         \/ p = Recovery /\ EndCommand /\ Moved(p, "idle", 1, "none")
  BY GotoEffect, AbandonEffect, CleanAgainEffect, Processes
  DEF StopFails, EndCommand, LocalInv, StepNames, IInv
<1>2. StateType
  BY StateTypes
<1> USE <1>1, <1>2, Processes DEF IInv, Moved, StateType, StopFails, AbandonLaunch,
        CleanAgain, EndCommand, Unlock
<1>3. TypeOK'
  <2>1. tries' \in [Launch -> 0..2]
    BY DEF LocalInv
  <2>2. faults' \in 0..MaxFaults
    BY PortalAssumption DEF TypeOK, Fault
  <2>4. lock' \in Process \cup {None} /\ record' \in [Launch -> {"none", "active", "inactive"}]
    OBVIOUS
  <2> QED  BY <2>1, <2>2, <2>4 DEF TypeOK, Locals, StepNames, Whys
<1>4. LocalInv' /\ LockInv'
  BY DEF LocalInv, LaunchSteps, Critical, Over, LockInv
<1>5. RecordInv' /\ QuietInv'
  BY DEF RecordInv, Unready, Serves, QuietInv, LockInv, Critical
<1>6. ServeInv' /\ FreshInv'
  BY DEF ServeInv, Serves, FreshInv, LockInv, LocalInv, Fresh, Critical
<1>7. GivenInv' /\ SockInv'
  BY DEF GivenInv, Unready, SockInv
<1>8. TrackInv' /\ StopInv'
  BY DEF TrackInv, StopInv, LocalInv
<1> QED  BY <1>3, <1>4, <1>5, <1>6, <1>7, <1>8

\* A crash is blamed on the portal's instances.
LEMMA PortalCrashesStep ==
    ASSUME IInv, PortalCrashes
    PROVE  IInv'
<1>1. PICK q \in alive : alive' = alive \ {q} /\ blame' = Blamed({q[1]}, "crash")
  BY DEF PortalCrashes
<1>2. /\ blame' \in [Launch -> SUBSET Excuses]
      /\ \A l \in Launch : blame'[l] = {} => blame[l] = {} /\ (Serves(l) => using[l] # q[1])
  BY <1>1, BlamedEffect DEF Excuses
<1>3. UNCHANGED <<at, lock, launches, using, files, known, strays>> /\ alive' \subseteq alive
  BY <1>1 DEF PortalCrashes
<1>4. TypeOK'
  BY <1>3, PortalAssumption DEF IInv, TypeOK, PortalCrashes, Fault
<1>5. LocalInv' /\ LockInv' /\ RecordInv' /\ QuietInv' /\ GivenInv' /\ SockInv'
  BY <1>3
  DEF IInv, LocalInv, LockInv, RecordInv, QuietInv, GivenInv, SockInv, Unready, Serves
<1>6. ServeInv'
  BY <1>1, <1>2, <1>3 DEF IInv, ServeInv, Serves, ProcessesOf
<1>7. FreshInv' /\ TrackInv' /\ StopInv'
  BY <1>2, <1>3 DEF IInv, FreshInv, Fresh, Serves, TrackInv, StopInv
<1> QED  BY <1>4, <1>5, <1>6, <1>7 DEF IInv

-------------------------------------------------------------------------------
(***************************************************************************)
(* The shared portal                                                       *)
(***************************************************************************)

\* The lock, the pid files, the socket and the records agree with what launches
\* and the recovery are doing, at every point of their interleaving.
THEOREM Invariance == Spec => []IInv
<1>1. Init => IInv
  <2> SUFFICES ASSUME Init PROVE IInv
    OBVIOUS
  <2>6. \A p \in Process : at[p] \in Locals
    BY DEF Init, Locals, StepNames, Whys
  <2>7. at \in [Process -> Locals] /\ faults \in 0..MaxFaults
    BY <2>6, PortalAssumption DEF Init
  <2>8. /\ record \in [Launch -> {"none", "active", "inactive"}] /\ tries \in [Launch -> 0..2]
        /\ pid \in [Kind -> Launch \cup {None}] /\ using \in [Launch -> Launch \cup {None}]
    BY DEF Init
  <2>9. /\ lock \in Process \cup {None} /\ dir \in BOOLEAN /\ appId = "none"
        /\ sock \in Launch \cup {None} /\ alive = {} /\ strays = {} /\ known = {}
    BY DEF Init
  <2>1. TypeOK
    BY <2>7, <2>8, <2>9 DEF TypeOK, Locals, StepNames, Whys
  <2>2. at \in [Process -> Locals] /\ \A l \in Launch : At(l, "new")
    BY <2>1, AtType, Processes DEF Init
  <2>3. At(Recovery, "idle")
    BY Processes DEF Init
  <2>4. LocalInv /\ LockInv /\ RecordInv /\ ServeInv /\ QuietInv
    BY <2>2, <2>3, Processes
    DEF Init, LocalInv, LockInv, RecordInv, ServeInv, QuietInv, LaunchSteps, Critical, Over,
        Unready, Serves
  <2>5. GivenInv /\ SockInv /\ FreshInv /\ TrackInv /\ StopInv
    BY <2>2, <2>3, Processes
    DEF Init, GivenInv, SockInv, FreshInv, TrackInv, StopInv, Fresh
  <2> QED  BY <2>1, <2>4, <2>5 DEF IInv
<1>2. IInv /\ [Next]_vars => IInv'
  <2> SUFFICES ASSUME IInv, [Next]_vars PROVE IInv'
    OBVIOUS
  <2>1. ASSUME NEW l \in Launch, LaunchStep(l) PROVE IInv'
    <3>1. l \in Process
      BY Processes
    <3>2. CASE CheckReady(l)
      <4>1. \/ Ready /\ using' = [using EXCEPT ![l] = sock] /\ lock' = None /\ Goto(l, "prepared")
            \/ /\ Stop(l, IF Ready THEN "mismatch" ELSE "unready")
               /\ UNCHANGED <<using, lock>>
        BY <3>2 DEF CheckReady
      <4> QED  BY <3>2, <4>1, UsePortalStep, StopPortalStep
    <3> QED
      BY <2>1, <3>1, <3>2, TerminateStep, RemoveSharedStep, StopFailsStep, WriteRecordStep,
         LockScopeStep, CreateDirsStep, TruncateIdStep, WriteIdStep, SpawnNextStep,
         SpawnFailsStep, WritePidStep, WaitForPortalStep, PrepareFailsStep,
         AttachSandboxStep, ApplicationEndsStep, RemoveSandboxStep, RelockScopeStep,
         MarkInactiveStep, AskOthersStep, FinishStep
      DEF LaunchStep
  <2>2. ASSUME NEW l \in Launch, KillLaunch(l) PROVE IInv'
    BY <2>2, KillLaunchStep
  <2>3. CASE RecoveryStep
    BY <2>3, Processes, ReadIdStep, LookActiveStep, LockReadStep, RecheckStep, TerminateStep,
       RemoveSharedStep, StopFailsStep
    DEF RecoveryStep
  <2>4. CASE KillRecovery \/ PortalCrashes
    BY <2>4, KillRecoveryStep, PortalCrashesStep
  <2>5. CASE UNCHANGED vars
    BY <2>5
    DEF vars, IInv, TypeOK, LocalInv, LockInv, RecordInv, ServeInv, QuietInv, GivenInv,
        SockInv, FreshInv, TrackInv, StopInv, Unready, Fresh, Serves
  <2> QED  BY <2>1, <2>2, <2>3, <2>4, <2>5 DEF Next
<1> QED  BY <1>1, <1>2, PTL DEF Spec

\* Every variable keeps its type in every state of the shared portal.
THEOREM TypeCorrect == Spec => []TypeOK
<1>1. IInv => TypeOK
  BY DEF IInv
<1> QED  BY <1>1, Invariance, PTL

\* An instance keeps its portal, with its documents registered: neither the
\* cleanup of another instance nor the recovery of a portal with a readable
\* app-id takes it away, for any number of launches, kills and crashes.
THEOREM PortalsServe == Spec => []PortalServes
<1>1. IInv => PortalServes
  <2> SUFFICES ASSUME IInv, NEW l \in Launch, at[l].step \in Serving
               PROVE  /\ blame[l] \subseteq {"crash", "unready", "mismatch", "nameless"}
                      /\ blame[l] = {} => /\ ProcessesOf(using[l]) \subseteq alive
                                          /\ At(l, "running") => l \in known
    BY DEF PortalServes
  <2> QED  BY DEF IInv, ServeInv, Serves, Excuses
<1> QED  BY <1>1, Invariance, PTL

\* Two portals of an application do not run at the same time, but for processes
\* whose pid file was lost or never made.
THEOREM AtMostOnePortal == Spec => []OnePortal
<1>1. IInv => OnePortal
  <2> SUFFICES ASSUME IInv, NEW p \in alive \ strays, NEW q \in alive \ strays,
                      p[2] = "bus", q[2] = "bus"
               PROVE  p = q
    BY DEF OnePortal
  <2>1. PICK l \in Launch, m \in Launch : p = <<l, "bus">> /\ q = <<m, "bus">>
    BY StateTypes DEF StateType
  <2>2. \A x \in {l, m} : pid["bus"] = x \/ (At(x, "file") /\ lock = x /\ Fresh(x))
    BY <2>1 DEF IInv, TrackInv, LockInv, Critical, Fresh, Kind
  <2>3. \A x \in Launch : Fresh(x) => pid["bus"] \in {None, x}
    BY DEF IInv, FreshInv, Kind
  <2> QED  BY <2>1, <2>2, <2>3, Processes
<1> QED  BY <1>1, Invariance, PTL

=================================================================================
