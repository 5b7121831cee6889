----------------------------- MODULE SeenStore -----------------------------
(***************************************************************************)
(* cc_hook/seen.py: the file in which the hook processes of one Claude     *)
(* Code session keep the entry ids they have shown.  append() reads it,    *)
(* writes a temporary file beside it, under the same name in every         *)
(* process, and renames that over it.  What a process writes goes to the   *)
(* file it has opened, whatever its name has become since: opening the     *)
(* temporary file empties it for whoever else is writing it, and renaming  *)
(* it does not stop them.                                                  *)
(***************************************************************************)
EXTENDS SequencesExt, Naturals, FiniteSets

CONSTANTS
  Hooks,   (* hook processes of the session                                *)
  Entries, (* entry ids                                                    *)
  Cap,     (* seen_cap                                                     *)
  NoFile,  (* there is no such file                                        *)
  Torn     (* bytes that are not JSON, or none                             *)

ASSUME SeenConstants ==
  /\ IsFiniteSet(Entries)
  /\ Cap \in Nat \ {0}
  /\ NoFile # Torn /\ {NoFile, Torn} \cap Seq(Entries) = {}

VARIABLES
  path,  (* the ids in the file, Torn or NoFile                            *)
  tmp,   (* the same of the temporary file                                 *)
  app    (* app[h]: [at, ids, text, to, crossed] of h's append(): text is  *)
         (* what it will write, to the name that the file it has opened    *)
         (* has now                                                        *)

seenvars == <<path, tmp, app>>

Unused == [at |-> "idle", ids |-> <<>>, text |-> <<>>, to |-> "none", crossed |-> FALSE]

SeenInit == path = NoFile /\ tmp = NoFile /\ app = [h \in Hooks |-> Unused]

(* read(): no file and an unreadable one are an empty list.                *)
Seen == IF path \in {NoFile, Torn} THEN <<>> ELSE path

(* The ids of s, then those of t that are new, each once.                  *)
Merge(s, t) ==
  LET merged[i \in 0..Len(t)] ==
        IF i = 0 THEN s
        ELSE IF Contains(merged[i - 1], t[i]) THEN merged[i - 1] ELSE Append(merged[i - 1], t[i])
  IN merged[Len(t)]

(* Slip: the oldest ids are kept.                                          *)
KeepFirst(s) == IF Len(s) > Cap THEN SubSeq(s, 1, Cap) ELSE s
Capped(s) == IF Len(s) > Cap THEN SubSeq(s, Len(s) - Cap + 1, Len(s)) ELSE s

(* h's append goes on as new; rename says what becomes of the name of the  *)
(* file another has opened.  History: it came between the reading and the  *)
(* renaming of the others.                                                 *)
Onwards(h, new, rename) ==
  app' = [g \in Hooks |->
    IF g = h THEN new
    ELSE [app[g] EXCEPT !.crossed = @ \/ app[g].at # "idle", !.to = rename[@]]]

SameName == [name \in {"none", "tmp", "path", "lost"} |-> name]

BeginAppend(h, ids) ==
  /\ app[h].at = "idle"
  /\ app' = [app EXCEPT ![h] =
       [Unused EXCEPT !.at = "open", !.ids = ids, !.text = Capped(Merge(Seen, ids))]]
  /\ UNCHANGED <<path, tmp>>

(* open(tmp, 'w').                                                         *)
OpenTmp(h) ==
  /\ app[h].at = "open"
  /\ tmp' = Torn
  /\ Onwards(h, [app[h] EXCEPT !.at = "write", !.to = "tmp"], SameName)
  /\ UNCHANGED path

(* The text goes to the start of the file; what a longer one has left      *)
(* there sticks out behind it.                                             *)
Written(old, text) == IF old # Torn /\ Len(old) > Len(text) THEN Torn ELSE text

WriteTmp(h) ==
  /\ app[h].at = "write"
  /\ tmp' = IF app[h].to = "tmp" THEN Written(tmp, app[h].text) ELSE tmp
  /\ path' = IF app[h].to = "path" THEN Written(path, app[h].text) ELSE path
  /\ Onwards(h, [app[h] EXCEPT !.at = "rename"], SameName)

(* os.replace(); without a temporary file it raises, and the hook ends     *)
(* before it has printed anything.                                         *)
Rename(h) ==
  /\ app[h].at = "rename"
  /\ IF tmp = NoFile
     THEN Onwards(h, Unused, SameName) /\ UNCHANGED <<path, tmp>>
     ELSE /\ path' = tmp /\ tmp' = NoFile
          /\ Onwards(h, Unused, [SameName EXCEPT !["tmp"] = "path", !["path"] = "lost"])

(* The process is killed, by Claude Code when its time is up.              *)
Killed(h) ==
  /\ app[h].at # "idle"
  /\ app' = [app EXCEPT ![h] = Unused]
  /\ UNCHANGED <<path, tmp>>

(* cleanup_stale(), when the file has not been written for days.           *)
CleanUp ==
  /\ path # NoFile /\ \A h \in Hooks : app[h].at = "idle"
  /\ path' = NoFile
  /\ UNCHANGED <<tmp, app>>

AppendStep(h) == OpenTmp(h) \/ WriteTmp(h) \/ Killed(h)

SeenNext ==
  \/ \E h \in Hooks :
       \/ \E e \in Entries : BeginAppend(h, <<e>>)
       \/ AppendStep(h) \/ Rename(h)
  \/ CleanUp

SeenSpec == SeenInit /\ [][SeenNext]_seenvars

-----------------------------------------------------------------------------
(* Properties.                                                             *)

SeenTypeOK ==
  /\ {path, tmp} \subseteq Seq(Entries) \cup {Torn, NoFile}
  /\ app \in [Hooks -> [at : {"idle", "open", "write", "rename"}, ids : Seq(Entries),
                        text : Seq(Entries), to : DOMAIN SameName, crossed : BOOLEAN]]

(* Two hooks may lose each other's ids; one that no other has come between *)
(* leaves a file with everything that was in it and its own ids after      *)
(* that, less the oldest above seen_cap.                                   *)
SeenKept ==
  [][\A h \in Hooks :
       app[h].at = "rename" /\ app'[h].at = "idle" /\ tmp # NoFile /\ tmp' = NoFile /\ ~app[h].crossed =>
         LET all == Merge(Seen, app[h].ids)
         IN  /\ IsSuffix(Seen', all)
             /\ Len(Seen') = IF Len(all) < Cap THEN Len(all) ELSE Cap]_seenvars

=============================================================================
