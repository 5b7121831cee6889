------------------------------- MODULE Recall -------------------------------
(***************************************************************************)
(* From a Claude Code hook to a recalled memory: cc_hook/main.py and       *)
(* client.py, the recall daemon (recall_daemon/server.py and cli.py) with  *)
(* its pid file and its port, and MemoryStore.recall() in the daemon's     *)
(* handler threads, while other processes deny, approve and invalidate     *)
(* entries.  What a hook has shown it adds to SeenStore.                   *)
(*                                                                         *)
(* A daemon is a process that is launched when a hook finds the port       *)
(* closed, and ends when nobody has asked for a while.  Only the pid file  *)
(* and the exclusive port keep two from serving.                           *)
(***************************************************************************)
EXTENDS SeenStore

CONSTANTS
  Daemons,   (* pids of daemon processes that can be there together        *)
  NoPid,     (* no pid file; nobody listens on the port                    *)
  Dead,      (* a pid file with the number of a process that is gone       *)
  Foreign,   (* one whose number another process of the user was given     *)
  Limit,     (* limit of a request                                         *)
  Governed,  (* entries others deny, approve and invalidate                *)
  MaxFaults  (* bound: daemons killed, crashed or failing to load          *)

ASSUME RecallConstants ==
  /\ NoPid \notin Daemons /\ Dead \notin Daemons \cup {NoPid}
  /\ Foreign \notin Daemons \cup {NoPid, Dead}
  /\ Limit \in Nat /\ MaxFaults \in Nat /\ Governed \subseteq Entries

VARIABLES
  live,    (* entries recall may return now: not denied, valid now         *)
  pidFile, (* NoPid, Dead, Foreign or the pid of a daemon that is there    *)
  port,    (* the process listening on daemon_port, or NoPid               *)
  proc,    (* proc[d]: where daemon process d is; "off": there is none     *)
  faults,  (* daemons that have died so far                                *)
  hook     (* hook[h]: [at, by, got, lived]; lived is history: the entries *)
           (* that have been live since it asked, of those it got          *)

rvars == <<seenvars, live, pidFile, port, proc, faults, hook>>
daemons == <<pidFile, port, proc, faults>>

Starting == {"check", "claim", "load"}
NoHook == [at |-> "idle", by |-> NoPid, got |-> {}, lived |-> {}]

RecallInit ==
  /\ SeenInit
  /\ live = Entries
  /\ pidFile = NoPid /\ port = NoPid
  /\ proc = [d \in Daemons |-> "off"]
  /\ faults = 0
  /\ hook = [h \in Hooks |-> NoHook]

To(d, pc) == proc' = [proc EXCEPT ![d] = pc]
Asking(h) == hook[h].at = "asked"

-----------------------------------------------------------------------------
(* Other processes change governance columns.                              *)

Govern(e) ==
  /\ live' = IF e \in live THEN live \ {e} ELSE live \cup {e}
  /\ hook' = [h \in Hooks |->
       IF Asking(h) THEN [hook[h] EXCEPT !.lived = @ \cup live'] ELSE hook[h]]
  /\ UNCHANGED <<seenvars, daemons>>

-----------------------------------------------------------------------------
(* recall_daemon/cli.py and server.py: the life of a daemon.               *)

(* start(): is_stale() asks only whether a process has that number.        *)
CheckPid(d) ==
  /\ proc[d] = "check"
  /\ To(d, IF pidFile \in Daemons \cup {Foreign} THEN "off" ELSE "claim")
  /\ UNCHANGED <<seenvars, live, pidFile, port, faults, hook>>

(* Slip: the pid file is written only where there was none.                *)
ClaimIfAbsent(d) ==
  /\ proc[d] = "claim"
  /\ IF pidFile = NoPid THEN pidFile' = d /\ To(d, "load")
     ELSE pidFile' = pidFile /\ To(d, "off")
  /\ UNCHANGED <<seenvars, live, port, faults, hook>>

ClaimPid(d) ==
  /\ proc[d] = "claim"
  /\ pidFile' = d
  /\ To(d, "load")
  /\ UNCHANGED <<seenvars, live, port, faults, hook>>

(* The number stays in the file of a process that ends.                    *)
Gone(d) == IF pidFile = d THEN Dead ELSE pidFile

(* The store is opened, the embedder warmed up, then the port is bound; if *)
(* another has it, start() raises and leaves its pid file behind.          *)
Bind(d) ==
  /\ proc[d] = "load"
  /\ IF port = NoPid
     THEN port' = d /\ To(d, "serving") /\ UNCHANGED pidFile
     ELSE To(d, "off") /\ pidFile' = Gone(d) /\ UNCHANGED port
  /\ UNCHANGED <<seenvars, live, faults, hook>>

(* _monitor_loop() finds the daemon idle; a request may still be accepted  *)
(* before it has shut the server down.                                     *)
Expire(d) ==
  /\ proc[d] = "serving" /\ \A h \in Hooks : ~(Asking(h) /\ hook[h].by = d)
  /\ To(d, "expired")
  /\ UNCHANGED <<seenvars, live, pidFile, port, faults, hook>>

Shutdown(d) ==
  /\ proc[d] = "expired"
  /\ port' = NoPid
  /\ To(d, "closing")
  /\ UNCHANGED <<seenvars, live, pidFile, faults, hook>>

(* Requests under way end with the process or with an error of the closed  *)
(* store: neither a refusal nor a timeout, so the hook spawns nothing.     *)
Unanswered(d) ==
  hook' = [h \in Hooks |-> IF Asking(h) /\ hook[h].by = d THEN NoHook ELSE hook[h]]

(* stop() closes the store and the pid file is removed, whoever wrote it.  *)
Exit(d) ==
  /\ proc[d] = "closing"
  /\ To(d, "off")
  /\ pidFile' = NoPid
  /\ Unanswered(d)
  /\ UNCHANGED <<seenvars, live, port, faults>>

(* It crashes, or cannot load its store, or `aingram recall-daemon stop`   *)
(* kills it and removes the pid file.                                      *)
Die(d) ==
  /\ proc[d] # "off" /\ faults < MaxFaults
  /\ faults' = faults + 1
  /\ To(d, "off")
  /\ port' = IF port = d THEN NoPid ELSE port
  /\ pidFile' \in {Gone(d)} \cup (IF pidFile = d THEN {NoPid} ELSE {})
  /\ Unanswered(d)
  /\ UNCHANGED <<seenvars, live>>

(* The number in the file of a dead daemon is given to another process, or *)
(* that one ends.                                                          *)
GivePid ==
  /\ pidFile \in {Dead, Foreign}
  /\ pidFile' \in {Dead, Foreign} \ {pidFile}
  /\ UNCHANGED <<seenvars, live, port, proc, faults, hook>>

(* `aingram recall-daemon stop` removes the file of a daemon that is gone; *)
(* whoever has its number now is sent a SIGTERM.                           *)
RemoveStale ==
  /\ pidFile \in {Dead, Foreign}
  /\ pidFile' = NoPid
  /\ UNCHANGED <<seenvars, live, port, proc, faults, hook>>

-----------------------------------------------------------------------------
(* The hook, and the handler thread that serves it.                        *)

(* The seen ids go along; ranking only demotes by them.                    *)
Ask(h) ==
  /\ hook[h].at = "idle" /\ app[h].at = "idle"
  /\ hook' = [hook EXCEPT ![h] =
       IF port = NoPid THEN [NoHook EXCEPT !.at = "refused"]
       ELSE [NoHook EXCEPT !.at = "asked", !.by = port, !.lived = live]]
  /\ UNCHANGED <<seenvars, live, daemons>>

(* _default_spawn_daemon(), and the hook ends without a word.              *)
Spawn(h, d) ==
  /\ hook[h].at = "refused" /\ proc[d] = "off"
  /\ To(d, "check")
  /\ hook' = [hook EXCEPT ![h] = NoHook]
  /\ UNCHANGED <<seenvars, live, pidFile, port, faults>>

(* hook_timeout_ms have passed: it is taken for a refusal.                 *)
TimeOut(h) ==
  /\ Asking(h)
  /\ hook' = [hook EXCEPT ![h] = [NoHook EXCEPT !.at = "refused"]]
  /\ UNCHANGED <<seenvars, live, daemons>>

(* What the vector, text, graph and chain searches may name: any entries,  *)
(* whatever their status.                                                  *)
Found == SUBSET Entries

(* Slip: status and validity are not looked at.                            *)
Unfiltered(found) == found

(* is_valid_at() and status_factor() of the rows.                          *)
Recallable(found) == found \cap live

(* The rows of what was found are read later, in one query, filtered,      *)
(* sorted and cut at the limit; the daemon drops what is below its         *)
(* thresholds.                                                             *)
Answer(h) ==
  /\ Asking(h)
  /\ \E found \in Found :
       LET got == Recallable(found)
       IN  /\ Cardinality(got) <= Limit
           /\ hook' = [hook EXCEPT ![h] =
                IF got = {} THEN NoHook
                ELSE [at |-> "answered", by |-> NoPid, got |-> got, lived |-> @.lived \cap got]]
  /\ UNCHANGED <<seenvars, live, daemons>>

Record(h) ==
  /\ hook[h].at = "answered"
  /\ \E ids \in SetToSeqs(hook[h].got) : BeginAppend(h, ids)
  /\ hook' = [hook EXCEPT ![h] = [NoHook EXCEPT !.at = "append"]]
  /\ UNCHANGED <<live, daemons>>

(* After the rename the block is printed and the hook ends.                *)
Show(h) ==
  /\ hook[h].at = "append"
  /\ Rename(h)
  /\ hook' = [hook EXCEPT ![h] = NoHook]
  /\ UNCHANGED <<live, daemons>>

Appending(h) ==
  /\ hook[h].at = "append"
  /\ AppendStep(h)
  /\ hook' = IF app'[h].at = "idle" THEN [hook EXCEPT ![h] = NoHook] ELSE hook
  /\ UNCHANGED <<live, daemons>>

Sweep == CleanUp /\ UNCHANGED <<live, daemons, hook>>

Life(d) == CheckPid(d) \/ ClaimPid(d) \/ Bind(d) \/ Shutdown(d) \/ Exit(d)

RecallNext ==
  \/ \E e \in Governed : Govern(e)
  \/ \E d \in Daemons : Life(d) \/ Expire(d) \/ Die(d)
  \/ \E h \in Hooks :
       \/ Ask(h) \/ TimeOut(h) \/ Answer(h) \/ Record(h) \/ Show(h) \/ Appending(h)
       \/ \E d \in Daemons : Spawn(h, d)
  \/ GivePid \/ RemoveStale \/ Sweep

(* A process that was started goes on, and hooks that were refused do not  *)
(* all wait for ever: each of these steps moves some proc[d].  Nothing     *)
(* else is owed.                                                           *)
RecallSpec ==
  /\ RecallInit /\ [][RecallNext]_rvars
  /\ \A d \in Daemons : WF_proc(Life(d))
  /\ WF_proc(\E h \in Hooks, d \in Daemons : Spawn(h, d))

-----------------------------------------------------------------------------
(* Properties.                                                             *)

RecallTypeOK ==
  /\ SeenTypeOK
  /\ live \subseteq Entries
  /\ pidFile \in Daemons \cup {NoPid, Dead, Foreign}
  /\ port \in Daemons \cup {NoPid}
  /\ proc \in [Daemons -> Starting \cup {"off", "serving", "expired", "closing"}]
  /\ hook \in [Hooks -> [at : {"idle", "refused", "asked", "answered", "append"},
                         by : Daemons \cup {NoPid},
                         got : SUBSET Entries, lived : SUBSET Entries]]

(* A hook never injects an entry that was denied or had expired before it  *)
(* asked and stayed so, although the searches that find it do not look at  *)
(* its status and the answer is older than the block that is printed.      *)
ShownWasLive == \A h \in Hooks : hook[h].got \subseteq hook[h].lived

(* Hooks are not refused for ever: if they go on finding the port closed,  *)
(* a daemon goes on being launched that opens it, whatever the pid files   *)
(* that dead daemons leave, the races for them and the daemons that die.   *)
(* Only where another process has come to have the number in such a file,  *)
(* and for as long, every daemon takes it for a running one and ends.      *)
SpawnRecovers ==
  []<>(\E h \in Hooks : hook[h].at = "refused") => []<>(port # NoPid \/ pidFile = Foreign)

=============================================================================
