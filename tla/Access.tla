------------------------------- MODULE Access -------------------------------
(***************************************************************************)
(* The MCP server's tools behind SecurityMiddleware: agents and their      *)
(* tokens (storage/engine.py, made and revoked by the command line in a    *)
(* process of its own), the checks of security/middleware.py in their      *)
(* order, the rate limiter it calls, and what a tool that was let in does  *)
(* to the store (mcp_server.py, store.py: reference, verify).              *)
(*                                                                         *)
(* Tools run on the server's event loop one at a time; a call is two       *)
(* steps, because the token is read from the database before the tool      *)
(* writes to it and the command line may revoke it in between.  A token is *)
(* known by its agent: the hash is one to one.                             *)
(***************************************************************************)
EXTENDS RateLimiter, Sequences, FiniteSets

CONSTANTS
  Agents,         (* agent_id values to come                               *)
  Names,          (* agent_name values                                     *)
  ServerSession,  (* session_id of the server's MemoryStore                *)
  OtherSession,   (* session_id of another store on the same file          *)
  NoRow,          (* no such row, or no call under way                     *)
  MaxEntries      (* bound: rows of memory_entries                         *)

Roles == {"reader", "contributor", "admin"}
WriteTools == {"remember", "reference"}
ReadTools == {"recall", "get_related", "verify", "get_experiment_context"}
Tools == WriteTools \cup ReadTools

Class(t) == IF t \in WriteTools THEN "write" ELSE "read"

ASSUME AccessConstants ==
  /\ Keys = Agents \X {"write", "read"}
  /\ MaxEntries \in Nat \ {0}
  /\ ServerSession # OtherSession /\ {ServerSession, OtherSession} \cap Agents = {}
  /\ NoRow \notin Agents \cup {ServerSession, OtherSession}
  /\ NoRow \notin [name : Names, role : Roles, revoked : BOOLEAN]

VARIABLES
  rows,      (* rows[a]: [name, role, revoked] of agent_tokens, or NoRow   *)
  call,      (* [agent, role, tool] let in and not executed yet, or NoRow  *)
  entries,   (* session_id and, as history, author of each memory entry    *)
  refs,      (* rows of cross_references: [source, target, by]             *)
  since,     (* history: a moment from which used counts                   *)
  used,      (* history: used[k], limited calls let in since then, by key  *)
  late       (* history: late[a], operations executed after a was revoked  *)

store == <<entries, refs>>
limiter == <<now, buckets, tokens, last, checks, verdict, retryAt>>
counted == <<since, used>>
avars == <<rows, call, entries, refs, counted, late, limiter>>

EntryIds == 1..MaxEntries

AccessInit ==
  /\ Init
  /\ rows = [a \in Agents |-> NoRow]
  /\ call = NoRow
  /\ entries = <<[session |-> OtherSession, author |-> NoRow]>>
  /\ refs = {}
  /\ since = 0
  /\ used = [k \in Keys |-> 0]
  /\ late = [a \in Agents |-> 0]

-----------------------------------------------------------------------------
(* The command line, in another process.                                   *)

Taken == {rows[a].name : a \in {b \in Agents : rows[b] # NoRow}}

(* create_agent_token(): a name once used stays taken, revoked or not; the *)
(* insertion of a taken one is rolled back and changes nothing.            *)
CreateToken(a, n, r) ==
  /\ rows[a] = NoRow /\ n \notin Taken
  /\ rows' = [rows EXCEPT ![a] = [name |-> n, role |-> r, revoked |-> FALSE]]
  /\ UNCHANGED <<call, store, counted, late, limiter>>

(* revoke_agent_token(), by name.                                          *)
RevokeToken(n) ==
  /\ n \in Taken
  /\ rows' = [a \in Agents |->
       IF rows[a] # NoRow /\ rows[a].name = n
       THEN [rows[a] EXCEPT !.revoked = TRUE] ELSE rows[a]]
  /\ UNCHANGED <<call, store, counted, late, limiter>>

-----------------------------------------------------------------------------
(* SecurityMiddleware.process().                                           *)

(* Slip: a token is looked up without revoked_at IS NULL.                  *)
KnownToken(a) == rows[a] # NoRow

(* verify_agent_token() as authenticate() uses it.                         *)
Authentic(a) == rows[a] # NoRow /\ ~rows[a].revoked

(* PERMISSIONS, for the tools the server has.                              *)
Allowed(t) ==
  IF t \in {"remember", "reference", "get_related"}
  THEN {"contributor", "admin"} ELSE Roles

(* TokenAuthenticator puts the agent's id where the session's would be.    *)
CallerSession(a) == a

(* Slip: reads are not charged.                                            *)
ChargeWrites(a, t) ==
  IF t \in WriteTools THEN Check(<<a, "write">>)
  ELSE verdict' = "granted" /\ UNCHANGED <<now, buckets, tokens, last, checks, retryAt>>

(* The limiter is keyed by ctx.session_id.                                 *)
Charge(a, t) == Check(<<CallerSession(a), Class(t)>>)

(* The error goes back to the caller as a message.                         *)
Refuse(error) == UNCHANGED <<rows, call, store, counted, late>>

Enter(a, t) ==
  /\ call' = [agent |-> a, role |-> rows[a].role, tool |-> t]
  /\ used' = [used EXCEPT ![<<a, Class(t)>>] = IF rows[a].role = "admin" THEN @ ELSE @ + 1]
  /\ UNCHANGED <<rows, store, since, late>>

(* Token, role, size, rate: the first that fails answers, and only the     *)
(* last has a state of its own.  big: the content is over 64 KiB.  Other   *)
(* parameters are clamped, which refuses nothing.                          *)
Process(a, t, big) ==
  /\ call = NoRow
  /\ t = "remember" => Len(entries) < MaxEntries
  /\ \/ ~Authentic(a) /\ Refuse("AuthenticationError") /\ UNCHANGED limiter
     \/ /\ Authentic(a) /\ rows[a].role \notin Allowed(t)
        /\ Refuse("AuthorizationError") /\ UNCHANGED limiter
     \/ /\ Authentic(a) /\ rows[a].role \in Allowed(t)
        /\ \/ big /\ t = "remember" /\ Refuse("InputBoundsError") /\ UNCHANGED limiter
           \/ /\ ~(big /\ t = "remember")
              /\ \/ rows[a].role = "admin" /\ Enter(a, t) /\ UNCHANGED limiter
                 \/ /\ rows[a].role # "admin" /\ Charge(a, t)
                    /\ IF verdict' = "granted" THEN Enter(a, t) ELSE Refuse("RateLimitError")

-----------------------------------------------------------------------------
(* The tool itself, for a call that was let in.                            *)

Finish(answer) ==
  /\ call' = NoRow
  /\ late' = [late EXCEPT ![call.agent] = IF rows[call.agent].revoked THEN @ + 1 ELSE @]
  /\ UNCHANGED <<rows, counted, limiter>>

Runs(t) == call # NoRow /\ call.tool = t

(* store.remember() signs for the server's own session, whoever calls.     *)
Remember ==
  /\ Runs("remember")
  /\ entries' = Append(entries, [session |-> ServerSession, author |-> call.agent])
  /\ Finish("ok")
  /\ UNCHANGED refs

(* recall, get_related and get_experiment_context write nothing.           *)
Read ==
  /\ Runs("recall") \/ Runs("get_related") \/ Runs("get_experiment_context")
  /\ Finish("ok")
  /\ UNCHANGED store

(* reference()'s owner check.                                              *)
Owns(source) ==
  call.role = "admin" \/ entries[source].session = CallerSession(call.agent)

Reference(source, target) ==
  /\ Runs("reference")
  /\ IF {source, target} \subseteq DOMAIN entries
     THEN \/ ~Owns(source) /\ Finish("AuthorizationError") /\ UNCHANGED store
          \/ /\ Owns(source)
             /\ \/ /\ \A r \in refs : <<r.source, r.target>> # <<source, target>>
                   /\ refs' = refs \cup {[source |-> source, target |-> target, by |-> call.role]}
                   /\ Finish("ok")
                \/ /\ \E r \in refs : <<r.source, r.target>> = <<source, target>>
                   /\ Finish("DatabaseError")   (* UNIQUE, rolled back       *)
                   /\ UNCHANGED refs
             /\ UNCHANGED entries
     ELSE Finish("ValueError") /\ UNCHANGED store

(* verify(): without a session_id the caller's own is taken; another one   *)
(* is for admins.                                                          *)
Verify(sid) ==
  /\ Runs("verify")
  /\ Finish(IF call.role = "admin" \/ sid \in {NoRow, CallerSession(call.agent)}
            THEN "ok" ELSE "AuthorizationError")
  /\ UNCHANGED store

AccessTick == Tick /\ UNCHANGED <<rows, call, store, counted, late>>

(* History only: the calls are counted from here on.                       *)
CountFromNow ==
  /\ since' = now /\ used' = [k \in Keys |-> 0]
  /\ UNCHANGED <<rows, call, store, late, limiter>>

AccessNext ==
  \/ AccessTick
  \/ CountFromNow
  \/ \E a \in Agents, n \in Names, r \in Roles : CreateToken(a, n, r)
  \/ \E n \in Names : RevokeToken(n)
  \/ \E a \in Agents, t \in Tools, big \in BOOLEAN : Process(a, t, big)
  \/ Remember
  \/ Read
  \/ \E s, d \in EntryIds : Reference(s, d)
  \/ \E sid \in {NoRow, ServerSession} \cup Agents : Verify(sid)

AccessSpec == AccessInit /\ [][AccessNext]_avars

-----------------------------------------------------------------------------
AccessTypeOK ==
  /\ TypeOK
  /\ rows \in [Agents -> {NoRow} \cup [name : Names, role : Roles, revoked : BOOLEAN]]
  /\ call \in {NoRow} \cup [agent : Agents, role : Roles, tool : Tools]
  /\ call # NoRow => rows[call.agent] # NoRow /\ rows[call.agent].role = call.role
  /\ Len(entries) \in EntryIds
  /\ \A e \in DOMAIN entries : entries[e].session \in {ServerSession, OtherSession}
  /\ since \in 0..now
  /\ used \in [Keys -> Nat]
  /\ late \in [Agents -> Nat]

(* "Revoke an agent token (takes effect on next MCP call)" (cli.py): after *)
(* a revocation at most one operation of the agent is carried out, the one *)
(* that was past the middleware already.                                   *)
RevocationTakesEffect ==
  \A a \in Agents :
    late[a] + (IF call # NoRow /\ call.agent = a /\ rows[a].revoked THEN 1 ELSE 0) <= 1

(* Between any two moments an agent that is no admin is let in no more     *)
(* than a full bucket and what has flowed in since, in each class of       *)
(* tools, with what is left set aside: no path through the middleware is   *)
(* free, and dropping an idle bucket or making it anew gives nothing away. *)
WithinBudget ==
  \A k \in Keys :
    used[k] * Unit + Level(k) <= Capacity[k] + (now - since) * Rate[k]

=============================================================================
