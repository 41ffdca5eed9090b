-------------------------- MODULE ProcessSupervision --------------------------
(***************************************************************************)
(* How a launcher supervises the process tree of its application, and how  *)
(* flatpak kill ends it.                                                   *)
(*                                                                         *)
(* The launcher is the reaper of everything below it.  The main thread     *)
(* waits for the whole tree, not for the process it started, forwards the  *)
(* signals it gets and escalates to SIGKILL (wait_for_exit_with_signal);   *)
(* a broker worker whose bus is gone ends what the exited owner left       *)
(* (terminate_orphaned_subtree_with_signal).  flatpak kill runs beside     *)
(* them with records and a process table it has read before.               *)
(*                                                                         *)
(* A zombie keeps its place in the reaper's listing until it is waited     *)
(* for, and the number of a subtree is not given out again while the       *)
(* subtree has members.  SIGTERM and SIGINT may be ignored; SIGKILL is not, *)
(* but takes its time.                                                     *)
(***************************************************************************)
EXTENDS Naturals

CONSTANTS Pid,         \* processes of the sandbox
          Root,        \* the one the launcher starts
          Nested,      \* nested sandboxes the broker may make; numbered, never reused
          MaxSignals   \* bound on the signals the user sends the launcher

ASSUME SupervisionAssumption == Root \in Pid /\ "app" \notin Nested /\ MaxSignals \in Nat

VARIABLES proc,      \* "free", "live" or "zombie"
          place,     \* the root a process runs in: the sandbox or a nested one
          doomed,    \* processes with SIGKILL pending
          nest,      \* the nested sandboxes; "published" and "running" have a record
          main,      \* where the main thread is
          status,    \* it has the exit status of the application
          term,      \* the signal it sends to the tree
          last,      \* LAST_SIGNAL
          sent,      \* signals the user has sent
          bus,       \* where the worker with the lost bus is
          launcher,  \* who has the launcher's pid: "up", "gone" or "other"
          record,    \* the run record is there
          kill       \* flatpak kill: its step, and what it has seen

tree == <<proc, place, doomed, nest>>
waiter == <<main, status, term>>
vars == <<tree, waiter, last, sent, bus, launcher, record, kill>>

MainSteps == {"try", "list", "relist", "poll", "signal", "ok", "lost", "survived",
              "drop", "drop_kill", "cleanup", "exit"}
BusSteps == {"open", "lost", "int", "kill", "closed"}
KillSteps == {"idle", "snapshot", "identity", "status", "again", "signal",
              "exited", "stale", "term", "kill", "swept", "requested", "ended",
              "not_running", "failed"}

\* reaper_pid_info for the subtree: nested sandboxes are not below the reaper.
Listed == {p \in Pid : proc[p] # "free" /\ place[p] = "app"}
Roots == {"app"} \cup Nested
Live(where) == {p \in Pid : proc[p] = "live" /\ place[p] \in where}

\* processes_remain: waitpid for every zombie of the listing, the root's only
\* if the caller may have its status.
Reaped(root_too) ==
    [p \in Pid |-> IF /\ p \in Listed /\ proc[p] = "zombie"
                      /\ root_too \/ p # Root
                   THEN "free" ELSE proc[p]]

Init ==
    /\ proc = [p \in Pid |-> IF p = Root THEN "live" ELSE "free"]
    /\ place = [p \in Pid |-> "app"]
    /\ doomed = {}
    /\ nest = [n \in Nested |-> "none"]
    /\ main = "try" /\ status = FALSE /\ term = "none"
    /\ last = "none" /\ sent = 0
    /\ bus = "open"
    /\ launcher = "up" /\ record = TRUE
    /\ kill = [step |-> "idle", owned |-> FALSE, roots |-> {}, later |-> {}]

-------------------------------------------------------------------------------
(***************************************************************************)
(* Plausible mistakes in the code, each of which a property below excludes *)
(***************************************************************************)

\* The wait loop waits for every process of the listing, the root among them.
ListReapingRoot ==
    /\ main = "list"
    /\ proc' = Reaped(TRUE)
    /\ main' = IF Listed # {} THEN "relist" ELSE IF status THEN "ok" ELSE "lost"
    /\ UNCHANGED <<place, doomed, nest, status, term, last, sent, bus, launcher, record, kill>>

\* The wait is over as soon as the application's status is known.
RelistStatus ==
    /\ main = "relist"
    /\ main' = IF status THEN "ok" ELSE "poll"
    /\ UNCHANGED <<tree, status, term, last, sent, bus, launcher, record, kill>>

\* A zombie owner is taken for one that has gone.
OrphanCheckLive ==
    /\ bus = "lost" /\ launcher = "up"
    /\ bus' = IF proc[Root] = "live" THEN "lost" ELSE "int"
    /\ UNCHANGED <<tree, waiter, last, sent, launcher, record, kill>>

\* The deadline of the first signal does not lead to SIGKILL.
ExpireNever ==
    /\ main = "signal"
    /\ main' = IF term = "KILL" THEN "survived" ELSE "try"
    /\ UNCHANGED <<tree, status, term, last, sent, bus, launcher, record, kill>>

\* The roots of nested sandboxes are not searched.
OwnRootOnly == {"app"}

-------------------------------------------------------------------------------
(***************************************************************************)
(* The processes of the sandbox                                            *)
(***************************************************************************)

\* A process forks; the child stays in its root.
Fork(p, q) ==
    /\ proc[p] = "live" /\ p \notin doomed
    /\ proc[q] = "free" /\ q # Root
    /\ proc' = [proc EXCEPT ![q] = "live"]
    /\ place' = [place EXCEPT ![q] = place[p]]
    /\ UNCHANGED <<doomed, nest, waiter, last, sent, bus, launcher, record, kill>>

\* An exit leaves a zombie, which its parent reaps unless that is the launcher.
Exit(p) ==
    /\ proc[p] = "live"
    /\ \E end \in IF p = Root /\ launcher = "up" THEN {"zombie"}
                  ELSE IF place[p] = "app" /\ launcher = "up" THEN {"zombie", "free"}
                  ELSE {"free"} :
           proc' = [proc EXCEPT ![p] = end]
    /\ doomed' = doomed \ {p}
    /\ UNCHANGED <<place, nest, waiter, last, sent, bus, launcher, record, kill>>

\* The bus of the owner, the application's subtree, goes away.
BusLost ==
    /\ bus = "open" /\ launcher = "up"
    /\ bus' = "lost"
    /\ UNCHANGED <<tree, waiter, last, sent, launcher, record, kill>>

-------------------------------------------------------------------------------
(***************************************************************************)
(* A broker worker makes a nested sandbox for a process that asks for one. *)
(* Drop of the broker joins the workers before the cleanup.                *)
(***************************************************************************)
BrokerUp == launcher = "up" /\ main # "cleanup"

\* NestedSandboxRoot::create: the record, with its parent_root, comes first.
PublishNested(n) ==
    /\ BrokerUp /\ Live(Roots) # {}
    /\ nest[n] = "none"
    /\ nest' = [nest EXCEPT ![n] = "published"]
    /\ UNCHANGED <<proc, place, doomed, waiter, last, sent, bus, launcher, record, kill>>

\* spawn_in_existing_sandbox, the root being made: the command runs in it.
SpawnNested(n, q) ==
    /\ BrokerUp
    /\ nest[n] = "published"
    /\ proc[q] = "free" /\ q # Root
    /\ proc' = [proc EXCEPT ![q] = "live"]
    /\ place' = [place EXCEPT ![q] = n]
    /\ nest' = [nest EXCEPT ![n] = "running"]
    /\ UNCHANGED <<doomed, waiter, last, sent, bus, launcher, record, kill>>

\* NestedSandboxRoot::cleanup, after a failed populate or once the helper has
\* answered, which it does when the jail has no process (NestedLaunch); a step
\* of the cleanup that fails leaves the record.
RemoveNested(n) ==
    /\ launcher = "up"
    /\ nest[n] \in {"published", "running"} /\ Live({n}) = {}
    /\ nest' = [nest EXCEPT ![n] = "gone"]
    /\ UNCHANGED <<proc, place, doomed, waiter, last, sent, bus, launcher, record, kill>>

-------------------------------------------------------------------------------
(***************************************************************************)
(* The launcher's main thread                                              *)
(***************************************************************************)

\* handle_signal: only the last signal is remembered.
HandleSignal(s) ==
    /\ launcher = "up"
    /\ last' = s
    /\ UNCHANGED waiter

UserSignals(s) ==
    /\ sent < MaxSignals
    /\ HandleSignal(s)
    /\ sent' = sent + 1
    /\ UNCHANGED <<tree, bus, launcher, record, kill>>

TryWait ==
    /\ main = "try"
    /\ IF ~status /\ proc[Root] = "zombie"
       THEN status' = TRUE /\ proc' = [proc EXCEPT ![Root] = "free"]
       ELSE UNCHANGED <<status, proc>>
    /\ main' = "list"
    /\ UNCHANGED <<place, doomed, nest, term, last, sent, bus, launcher, record, kill>>

\* processes_remain(false) lists, reaps and lists again.
List ==
    /\ main = "list"
    /\ proc' = Reaped(FALSE)
    /\ main' = IF Listed # {} THEN "relist" ELSE IF status THEN "ok" ELSE "lost"
    /\ UNCHANGED <<place, doomed, nest, status, term, last, sent, bus, launcher, record, kill>>

Relist ==
    /\ main = "relist"
    /\ main' = IF Listed # {} THEN "poll" ELSE IF status THEN "ok" ELSE "lost"
    /\ UNCHANGED <<tree, status, term, last, sent, bus, launcher, record, kill>>

\* The closure that launch passes maps LAST_SIGNAL; SIGHUP asks for nothing.
Poll ==
    /\ main = "poll"
    /\ term' = IF term # "none" THEN term
               ELSE IF last = "FORCE" THEN "KILL"
               ELSE IF last \in {"INT", "TERM"} THEN "TERM" ELSE "none"
    /\ main' = IF term' = "none" THEN "try" ELSE "signal"
    /\ doomed' = IF term' = "KILL" THEN doomed \cup Live({"app"}) ELSE doomed
    /\ UNCHANGED <<proc, place, nest, status, last, sent, bus, launcher, record, kill>>

WithinGrace ==
    /\ main = "signal"
    /\ main' = "try"
    /\ UNCHANGED <<tree, status, term, last, sent, bus, launcher, record, kill>>

Expire ==
    /\ main = "signal"
    /\ main' = IF term = "KILL" THEN "survived" ELSE "try"
    /\ term' = "KILL"
    /\ UNCHANGED <<tree, status, last, sent, bus, launcher, record, kill>>

\* Drop of the process tree terminates what is left, reaping the root too;
\* drop of the broker ends the nested sandboxes.
DropTree ==
    /\ main \in {"ok", "lost", "survived", "drop", "drop_kill"}
    /\ proc' = Reaped(TRUE)
    /\ \/ /\ {p \in Listed : proc[p] = "live"} = {}
          /\ main' = "cleanup"
          /\ doomed' = doomed \cup Live(Nested)
       \/ /\ main \in {"drop", "drop_kill"}
          /\ main' = IF main = "drop" THEN "drop_kill" ELSE "cleanup"
          /\ doomed' = doomed \cup Live(Roots)
       \/ /\ main \in {"ok", "lost", "survived"} /\ Live({"app"}) # {}
          /\ main' = "drop"
          /\ UNCHANGED doomed
    /\ UNCHANGED <<place, nest, status, term, last, sent, bus, launcher, record, kill>>

\* terminate_chroot_processes, then the teardown; survivors keep the record.
Cleanup ==
    /\ main = "cleanup"
    /\ record' = (Live({"app"}) # {})
    /\ doomed' = doomed \cup Live({"app"})
    /\ main' = "exit" /\ launcher' = "gone"
    /\ bus' = "closed"
    /\ proc' = [p \in Pid |-> IF proc[p] = "zombie" THEN "free" ELSE proc[p]]
    /\ UNCHANGED <<place, nest, status, term, last, sent, kill>>

\* The launcher is killed; init reaps what it leaves.
LauncherDies ==
    /\ launcher = "up"
    /\ launcher' = "gone" /\ main' = "exit" /\ bus' = "closed"
    /\ proc' = [p \in Pid |-> IF proc[p] = "zombie" THEN "free" ELSE proc[p]]
    /\ UNCHANGED <<place, doomed, nest, status, term, last, sent, record, kill>>

PidReused ==
    /\ launcher = "gone"
    /\ launcher' = "other"
    /\ UNCHANGED <<tree, waiter, last, sent, bus, record, kill>>

-------------------------------------------------------------------------------
(***************************************************************************)
(* The worker that cleans up after the owner of a lost bus                 *)
(***************************************************************************)

\* Nothing is done while the root of the subtree is in the listing.
OrphanCheck ==
    /\ bus = "lost" /\ launcher = "up"
    /\ bus' = IF Root \in Listed THEN "lost" ELSE "int"
    /\ UNCHANGED <<tree, waiter, last, sent, launcher, record, kill>>

\* SIGINT, then SIGKILL, until the subtree is empty or the graces are over.
OrphanEnd ==
    /\ bus \in {"int", "kill"} /\ launcher = "up"
    /\ proc' = Reaped(FALSE)
    /\ \/ /\ Listed = {}
          /\ bus' = "closed"
          /\ UNCHANGED doomed
       \/ /\ Listed # {}
          /\ bus' = IF bus = "int" THEN "kill" ELSE "closed"
          /\ doomed' = IF bus = "kill" THEN doomed \cup Live({"app"}) ELSE doomed
    /\ UNCHANGED <<place, nest, waiter, last, sent, launcher, record, kill>>

-------------------------------------------------------------------------------
(***************************************************************************)
(* flatpak kill                                                            *)
(***************************************************************************)
KillGoto(step) == kill' = [kill EXCEPT !.step = step]

\* ownership_roots: the root of the instance and the nested ones whose records
\* name it as their parent_root.
OwnershipRoots == {"app"} \cup {n \in Nested : nest[n] \in {"published", "running"}}

\* The records are read once; the roots of the whole command come from them.
\* kill.later is history: the nested sandboxes that had not been made by then.
ReadRecords ==
    /\ kill.step = "idle"
    /\ kill' = IF record
               THEN [step |-> "snapshot", owned |-> FALSE, roots |-> OwnershipRoots,
                     later |-> {n \in Nested : nest[n] = "none"}]
               ELSE [kill EXCEPT !.step = "not_running"]
    /\ UNCHANGED <<tree, waiter, last, sent, bus, launcher, record>>

Snapshot ==
    /\ kill.step = "snapshot"
    /\ kill' = [kill EXCEPT !.step = "identity", !.owned = Live(kill.roots) # {}]
    /\ UNCHANGED <<tree, waiter, last, sent, bus, launcher, record>>

\* force_stop_launcher: identity, reaper status, identity again, signal.
CheckIdentity ==
    /\ kill.step = "identity"
    /\ KillGoto(IF launcher = "up" THEN "status" ELSE "stale")
    /\ UNCHANGED <<tree, waiter, last, sent, bus, launcher, record>>

CheckReaper ==
    /\ kill.step = "status"
    /\ \/ launcher = "gone" /\ KillGoto("exited")
       \/ launcher = "other" /\ KillGoto("stale")
       \/ launcher # "gone" /\ KillGoto("again")
    /\ UNCHANGED <<tree, waiter, last, sent, bus, launcher, record>>

CheckAgain ==
    /\ kill.step = "again"
    /\ KillGoto(IF launcher = "up" THEN "signal" ELSE "exited")
    /\ UNCHANGED <<tree, waiter, last, sent, bus, launcher, record>>

\* The pid may have changed hands since the last look.
SignalLauncher ==
    /\ kill.step = "signal"
    /\ \/ /\ launcher = "up"
          /\ HandleSignal("FORCE")
          /\ KillGoto("requested")
       \/ /\ launcher # "up"
          /\ KillGoto(IF launcher = "gone" THEN "exited" ELSE "requested")
          /\ UNCHANGED <<last, waiter>>
    /\ UNCHANGED <<tree, sent, bus, launcher, record>>

\* kill_records: what the launcher does not end is ended by its roots.
Decide ==
    /\ kill.step \in {"exited", "stale"}
    /\ KillGoto(IF kill.owned THEN "term"
                ELSE IF kill.step = "exited" THEN "ended" ELSE "not_running")
    /\ UNCHANGED <<tree, waiter, last, sent, bus, launcher, record>>

\* terminate_processes_referencing_roots: rounds of SIGTERM, then of SIGKILL,
\* each on a fresh snapshot.
Sweep ==
    /\ kill.step \in {"term", "kill"}
    /\ \/ /\ Live(kill.roots) = {}
          /\ KillGoto("swept")
          /\ UNCHANGED doomed
       \/ /\ Live(kill.roots) # {}
          /\ doomed' = IF kill.step = "kill" THEN doomed \cup Live(kill.roots) ELSE doomed
          /\ KillGoto(IF kill.step = "term" THEN "kill" ELSE "failed")
       \/ /\ Live(kill.roots) \subseteq doomed \cup {p \in Pid : kill.step = "term"}
          /\ Live(kill.roots) # {}
          /\ UNCHANGED <<kill, doomed>>
    /\ UNCHANGED <<proc, place, nest, waiter, last, sent, bus, launcher, record>>

-------------------------------------------------------------------------------
Waits == \/ TryWait \/ List \/ Relist \/ Poll \/ WithinGrace \/ Expire
         \/ DropTree \/ Cleanup

KillCommand == \/ ReadRecords \/ Snapshot \/ CheckIdentity \/ CheckReaper
               \/ CheckAgain \/ SignalLauncher \/ Decide \/ Sweep

Main == launcher = "up" /\ Waits

Finished == main = "exit" /\ Live(Roots) = {} /\ UNCHANGED vars

Next == \/ Main \/ BusLost \/ OrphanCheck \/ OrphanEnd
        \/ KillCommand \/ LauncherDies \/ PidReused \/ Finished
        \/ \E s \in {"TERM", "HUP"} : UserSignals(s)
        \/ \E p, q \in Pid : Fork(p, q) \/ Exit(p)
        \/ \E n \in Nested : \/ PublishNested(n) \/ RemoveNested(n)
                            \/ \E q \in Pid : SpawnNested(n, q)

Spec == Init /\ [][Next]_vars

\* The main thread polls, deadlines pass, and SIGKILL is delivered.
Fairness == /\ WF_vars(Main)
            /\ SF_vars(launcher = "up" /\ Expire)
            /\ \A p \in Pid : WF_vars(p \in doomed /\ Exit(p))

FairSpec == Spec /\ Fairness

-------------------------------------------------------------------------------
(***************************************************************************)
(* Properties                                                              *)
(***************************************************************************)
\* The types of the variables.
TypeOK ==
    /\ proc \in [Pid -> {"free", "live", "zombie"}]
    /\ place \in [Pid -> Roots]
    /\ doomed \subseteq Pid
    /\ nest \in [Nested -> {"none", "published", "running", "gone"}]
    /\ main \in MainSteps /\ status \in BOOLEAN
    /\ term \in {"none", "TERM", "KILL"}
    /\ last \in {"none", "TERM", "HUP", "FORCE"}
    /\ sent \in 0..MaxSignals
    /\ bus \in BusSteps
    /\ launcher \in {"up", "gone", "other"}
    /\ record \in BOOLEAN
    /\ kill \in [step : KillSteps, owned : BOOLEAN, roots : SUBSET Roots, later : SUBSET Nested]

(***************************************************************************)
(* The exit status of the application is never lost: nobody but try_wait   *)
(* of the main thread reaps the root while it waits, so the wait never     *)
(* ends with "sandbox process tree exited without app status".             *)
(***************************************************************************)
StatusKept == main # "lost"

(***************************************************************************)
(* The wait for the application ends well only when every process of its   *)
(* tree is gone and reaped, the ones it left in the background included    *)
(* (the comment in launch: the reaper subtree remains authoritative).      *)
(***************************************************************************)
TreeEnded == main = "ok" => Listed = {}

(***************************************************************************)
(* A worker whose bus is gone ends only orphans: the root of their subtree *)
(* has exited and its status has been collected by its own waiter.         *)
(***************************************************************************)
OrphansOnly == bus \in {"int", "kill"} /\ main \notin {"drop", "drop_kill", "cleanup"} => status

(***************************************************************************)
(* flatpak kill of an instance whose launcher is dead succeeds only when   *)
(* no process is left in the sandbox, nor in a sandbox nested in it,       *)
(* except in a nested one that was made after the command had read the     *)
(* records: that one it does not know of.  Nested sandboxes that came and  *)
(* went, and processes that forked while the sweep ran, make no exception. *)
(***************************************************************************)
SweptEmpty ==
    kill.step = "swept" => \A p \in Pid : proc[p] = "live" => place[p] \in kill.later

(***************************************************************************)
(* A launcher that has been asked to stop does stop waiting, whether its   *)
(* application obeys SIGTERM or not, unless a hangup replaces the request  *)
(* before it is polled.                                                    *)
(***************************************************************************)
StopsWhenAsked ==
    last \in {"TERM", "FORCE"} ~> (launcher # "up" \/ (last = "HUP" /\ term = "none"))
===============================================================================
