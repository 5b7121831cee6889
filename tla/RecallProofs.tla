---------------------------- MODULE RecallProofs ----------------------------
(***************************************************************************)
(* Theorems about SeenStore and Recall, for any hooks, daemons, entries    *)
(* and seen_cap.                                                           *)
(***************************************************************************)
EXTENDS Recall, TLAPS, FiniteSetTheorems, WellFoundedInduction

LEMMA HasLeast ==
  ASSUME NEW S \in SUBSET Nat, S # {}
  PROVE  \E i \in S : \A j \in S : i <= j
  <1> DEFINE R == OpToRel(<, Nat)
  <1>1. IsWellFoundedOn(R, Nat)
    BY NatLessThanWellFounded
  <1>2. ASSUME NEW i \in Nat, NEW j \in Nat, j < i PROVE <<j, i>> \in R
    BY <1>2 DEF OpToRel
  <1> HIDE DEF R
  <1>3. PICK i \in S : \A j \in S : ~ (<<j, i>> \in R)
    BY <1>1, WFMin
  <1>4. \A j \in S : ~ (j < i)
    BY <1>2, <1>3, Zenon
  <1> QED BY <1>4

(* Induction, for a set of numbers.                                        *)
LEMMA SetInduction ==
  ASSUME NEW S, 0 \in S, \A n \in Nat : n \in S => n + 1 \in S
  PROVE  Nat \subseteq S
  <1> SUFFICES ASSUME Nat \ S # {} PROVE FALSE
    OBVIOUS
  <1>1. PICK i \in Nat \ S : \A j \in Nat \ S : i <= j
    BY HasLeast
  <1>2. i # 0 /\ i - 1 \in Nat /\ i - 1 < i
    BY <1>1
  <1>3. i - 1 \in S
    BY <1>1, <1>2
  <1> QED BY <1>1, <1>2, <1>3

(* A value for every number up to n, each from the one before.             *)
Iterates(g, n, V, base, step) ==
  g \in [0..n -> V] /\ g[0] = base /\ \A i \in 1..n : g[i] = step[i][g[i - 1]]

LEMMA Iteration ==
  ASSUME NEW n \in Nat, NEW V, NEW base \in V, NEW step \in [1..n -> [V -> V]]
  PROVE  \E g : Iterates(g, n, V, base, step)
  <1> DEFINE Upto(m) == \E g : Iterates(g, m, V, base, step)
             S == {m \in Nat : m <= n => Upto(m)}
  <1>1. 0 \in S
    <2>1. [i \in 0..0 |-> base] \in [0..0 -> V]
      OBVIOUS
    <2>2. [i \in 0..0 |-> base][0] = base /\ 1..0 = {}
      OBVIOUS
    <2>3. Iterates([i \in 0..0 |-> base], 0, V, base, step)
      BY <2>1, <2>2 DEF Iterates
    <2> QED BY <2>3
  <1>2. ASSUME NEW m \in Nat, m \in S PROVE m + 1 \in S
    <2> SUFFICES ASSUME m + 1 <= n PROVE Upto(m + 1)
      OBVIOUS
    <2>1. PICK g : Iterates(g, m, V, base, step)
      BY <1>2
    <2> DEFINE f == [i \in 0..(m + 1) |-> IF i = m + 1 THEN step[i][g[m]] ELSE g[i]]
    <2>2. m + 1 \in 1..n /\ m \in 0..m /\ step[m + 1][g[m]] \in V
      BY <2>1 DEF Iterates
    <2>3. f \in [0..(m + 1) -> V]
      BY <2>1, <2>2 DEF Iterates
    <2>4. f[0] = base
      BY <2>1 DEF Iterates
    <2>5. ASSUME NEW i \in 1..(m + 1) PROVE f[i] = step[i][f[i - 1]]
      BY <2>1 DEF Iterates
    <2> HIDE DEF f
    <2>6. Iterates(f, m + 1, V, base, step)
      BY <2>3, <2>4, <2>5 DEF Iterates
    <2> QED BY <2>6
  <1> HIDE DEF S
  <1>3. n \in S
    BY <1>1, <1>2, SetInduction
  <1> QED BY <1>3 DEF S

-----------------------------------------------------------------------------
(* What append() writes.                                                   *)

LEMMA MergeType ==
  ASSUME NEW s \in Seq(Entries), NEW t \in Seq(Entries)
  PROVE  Merge(s, t) \in Seq(Entries)
  <1> DEFINE n == Len(t)
             V == Seq(Entries)
             Next1(v, e) == IF Contains(v, e) THEN v ELSE Append(v, e)
             Solves(g) == g = [i \in 0..n |-> IF i = 0 THEN s ELSE Next1(g[i - 1], t[i])]
             step == [i \in 1..n |-> [v \in V |-> Next1(v, t[i])]]
  <1>1. n \in Nat /\ \A i \in 1..n : t[i] \in Entries
    OBVIOUS
  <1>2. \A v \in V, e \in Entries : Next1(v, e) \in V
    OBVIOUS
  <1>3. step \in [1..n -> [V -> V]] /\ \A i \in 1..n, v \in V : step[i][v] = Next1(v, t[i])
    BY <1>1, <1>2
  <1>4. Merge(s, t) = (CHOOSE g : Solves(g))[n]
    BY DEF Merge
  <1> HIDE DEF n, V, Next1, step
  <1>5. \E g : Solves(g)
    <2>1. s \in V
      BY DEF V
    <2>2. PICK g : Iterates(g, n, V, s, step)
      BY <1>1, <1>3, <2>1, Iteration
    <2>3. \A i \in 0..n : i # 0 => i \in 1..n /\ g[i - 1] \in V
      BY <1>1, <2>2 DEF Iterates
    <2>4. \A i \in 0..n : g[i] = IF i = 0 THEN s ELSE Next1(g[i - 1], t[i])
      BY <1>3, <2>2, <2>3 DEF Iterates
    <2>5. Solves(g)
      BY <2>2, <2>4 DEF Iterates
    <2> QED BY <2>5
  <1> DEFINE m == CHOOSE g : Solves(g)
  <1>6. Solves(m)
    BY <1>5
  <1> HIDE DEF m
  <1>7. m[0] = s /\ \A i \in 1..n : m[i] = Next1(m[i - 1], t[i])
    BY <1>1, <1>6
  <1> DEFINE S == {j \in Nat : j <= n => m[j] \in V}
  <1>8. 0 \in S
    BY <1>7 DEF V
  <1>9. \A j \in Nat : j \in S => j + 1 \in S
    <2> SUFFICES ASSUME NEW j \in Nat, j \in S, j + 1 <= n PROVE m[j + 1] \in V
      OBVIOUS
    <2>1. j + 1 \in 1..n /\ (j + 1) - 1 = j /\ m[j] \in V
      BY <1>1
    <2> QED BY <1>1, <1>2, <1>7, <2>1
  <1> HIDE DEF S
  <1>10. n \in S
    BY <1>1, <1>8, <1>9, SetInduction
  <1> QED BY <1>4, <1>10 DEF S, V, m

(* What is left of a list is its newest ids, as many as fit.               *)
LEMMA CappedTail ==
  ASSUME NEW all \in Seq(Entries)
  PROVE  /\ Capped(all) \in Seq(Entries)
         /\ IsSuffix(Capped(all), all)
         /\ Len(Capped(all)) = IF Len(all) < Cap THEN Len(all) ELSE Cap
  <1> DEFINE n == Len(all)
             c == IF n < Cap THEN n ELSE Cap
             s == Capped(all)
  <1>1. n \in Nat /\ Cap \in Nat /\ c \in Nat /\ c <= n
    BY SeenConstants
  <1>2. (n > Cap => c = Cap) /\ (~(n > Cap) => c = n)
    BY <1>1
  <1>3. s = IF n > Cap THEN SubSeq(all, n - Cap + 1, n) ELSE all
    BY DEF Capped
  <1> HIDE DEF s, c
  <1>4. s \in Seq(Entries) /\ Len(s) = c /\ \A i \in 1..c : s[i] = all[n - c + i]
    <2>1. CASE n > Cap
      <3>1. s = SubSeq(all, n - c + 1, n)
        BY <1>2, <1>3, <2>1
      <3>2. n - c + 1 \in 1..n + 1 /\ n - (n - c + 1) + 1 = c
        BY <1>1, <1>2, <2>1
      <3>3. \A i \in 1..c : s[i] = all[n - c + i]
        BY <1>1, <3>1, <3>2
      <3> QED BY <1>1, <3>1, <3>2, <3>3
    <2>2. CASE ~(n > Cap)
      BY <1>1, <1>2, <1>3, <2>2
    <2> QED BY <2>1, <2>2
  <1>5. \A i \in 1..c : Reverse(s)[i] = Reverse(all)[i]
    <2> SUFFICES ASSUME NEW i \in 1..c PROVE Reverse(s)[i] = Reverse(all)[i]
      OBVIOUS
    <2>1. Reverse(s)[i] = s[(c - i) + 1] /\ (c - i) + 1 \in 1..c
      BY <1>1, <1>4 DEF Reverse
    <2>2. Reverse(all)[i] = all[(n - i) + 1]
      BY <1>1 DEF Reverse
    <2>3. n - c + ((c - i) + 1) = (n - i) + 1
      BY <1>1
    <2> QED BY <1>4, <2>1, <2>2, <2>3
  <1>6. /\ Reverse(s) \in Seq(Entries) /\ Len(Reverse(s)) = c
        /\ Reverse(all) \in Seq(Entries) /\ Len(Reverse(all)) = n
    BY <1>1, <1>4 DEF Reverse
  <1>7. SubSeq(Reverse(s), 1, c) = SubSeq(Reverse(all), 1, c)
    BY <1>1, <1>5, <1>6
  <1>8. IsSuffix(s, all)
    BY <1>1, <1>6, <1>7 DEF IsSuffix, IsPrefix
  <1> QED BY <1>4, <1>8 DEF s, c

-----------------------------------------------------------------------------
(* The seen file.                                                          *)

Names == {"none", "tmp", "path", "lost"}
Appends == [at : {"idle", "open", "write", "rename"}, ids : Seq(Entries), text : Seq(Entries),
            to : Names, crossed : BOOLEAN]

(* A process that no other has come between: it writes what the file held  *)
(* when it began and still holds, the temporary file is its own, and what  *)
(* is in it is what it has written.                                        *)
Undisturbed(h) ==
  /\ app[h].text = Capped(Merge(Seen, app[h].ids))
  /\ app[h].at = "write" => app[h].to = "tmp" /\ tmp = Torn
  /\ app[h].at = "rename" => tmp = app[h].text

SeenInv ==
  /\ SeenTypeOK
  /\ \A h \in Hooks : app[h].at # "idle" /\ ~app[h].crossed => Undisturbed(h)

(* What another module may do to the seen file: whole steps of hooks, with *)
(* any ids.                                                                *)
SeenStep ==
  \/ \E h \in Hooks :
       \/ \E ids \in Seq(Entries) : BeginAppend(h, ids)
       \/ AppendStep(h) \/ Rename(h)
  \/ CleanUp

LEMMA SeenTypes ==
  SeenTypeOK <=> /\ path \in Seq(Entries) \cup {Torn, NoFile}
                 /\ tmp \in Seq(Entries) \cup {Torn, NoFile}
                 /\ app \in [Hooks -> Appends]
  <1>1. DOMAIN SameName = Names
    BY DEF SameName, Names
  <1> QED BY <1>1 DEF SeenTypeOK, Appends

LEMMA SeenStart == SeenInit => SeenInv
  <1> SUFFICES ASSUME SeenInit PROVE SeenInv
    OBVIOUS
  <1>1. Unused \in Appends
    BY DEF Unused, Appends, Names
  <1>2. app \in [Hooks -> Appends] /\ \A h \in Hooks : app[h].at = "idle"
    BY <1>1 DEF SeenInit, Unused
  <1> QED BY <1>2, SeenTypes DEF SeenInit, SeenInv

LEMMA TextType ==
  ASSUME SeenTypeOK, NEW ids \in Seq(Entries)
  PROVE  Capped(Merge(Seen, ids)) \in Seq(Entries)
  <1>1. Seen \in Seq(Entries)
    BY SeenTypes DEF Seen
  <1> QED BY <1>1, MergeType, CappedTail

LEMMA BeginKeeps ==
  ASSUME SeenInv, NEW h \in Hooks, NEW ids \in Seq(Entries), BeginAppend(h, ids)
  PROVE  SeenInv'
  <1> DEFINE text == Capped(Merge(Seen, ids))
             new == [Unused EXCEPT !.at = "open", !.ids = ids, !.text = text]
  <1>1. text \in Seq(Entries)
    BY TextType DEF SeenInv
  <1>2. app' = [app EXCEPT ![h] = new] /\ UNCHANGED <<path, tmp>>
    BY DEF BeginAppend
  <1> HIDE DEF text
  <1>3. /\ new \in Appends /\ new.at = "open" /\ new.ids = ids /\ new.text = text
    BY <1>1 DEF Unused, Appends, Names
  <1> HIDE DEF new
  <1>4. app \in [Hooks -> Appends]
    BY SeenTypes DEF SeenInv
  <1>5. /\ app' \in [Hooks -> Appends] /\ app'[h] = new
        /\ \A g \in Hooks : g # h => app'[g] = app[g]
    BY <1>2, <1>3, <1>4
  <1>6. SeenTypeOK'
    BY <1>2, <1>5, SeenTypes DEF SeenInv, SeenTypeOK, SameName, Appends, Names
  <1>7. Seen' = Seen
    BY <1>2 DEF Seen
  <1>8. ASSUME NEW g \in Hooks, app'[g].at # "idle", ~app'[g].crossed PROVE Undisturbed(g)'
    <2>1. CASE g = h
      BY <1>3, <1>5, <1>7, <2>1 DEF Undisturbed, text
    <2>2. CASE g # h
      BY <1>2, <1>5, <1>7, <1>8, <2>2 DEF Undisturbed, SeenInv
    <2> QED BY <2>1, <2>2
  <1> QED BY <1>6, <1>8 DEF SeenInv

(* A step of h that touches a file leaves no other undisturbed.            *)
LEMMA OnwardsType ==
  ASSUME SeenTypeOK, NEW h \in Hooks, NEW new \in Appends, NEW rename \in [Names -> Names],
         Onwards(h, new, rename)
  PROVE  /\ app' \in [Hooks -> Appends] /\ app'[h] = new
         /\ \A g \in Hooks \ {h} : app'[g].at = app[g].at /\ (app[g].at # "idle" => app'[g].crossed)
  <1>1. ASSUME NEW g \in Hooks, g # h
        PROVE  /\ app'[g] \in Appends /\ app'[g].at = app[g].at
               /\ app[g].at # "idle" => app'[g].crossed
    <2> DEFINE r == app[g]
               b == r.crossed \/ r.at # "idle"
    <2>1. r \in Appends
      BY SeenTypes
    <2>2. app'[g] = [r EXCEPT !.crossed = b, !.to = rename[r.to]]
      BY <1>1 DEF Onwards
    <2>3. b \in BOOLEAN /\ rename[r.to] \in Names
      BY <2>1 DEF Appends
    <2> HIDE DEF r
    <2>4. r = [at |-> r.at, ids |-> r.ids, text |-> r.text, to |-> r.to, crossed |-> r.crossed]
      BY <2>1 DEF Appends
    <2>5. app'[g] = [at |-> r.at, ids |-> r.ids, text |-> r.text, to |-> rename[r.to], crossed |-> b]
      BY <2>2, <2>4
    <2>6. app'[g] \in Appends /\ app'[g].at = r.at /\ app'[g].crossed = b
      BY <2>1, <2>3, <2>5 DEF Appends
    <2> QED BY <2>6 DEF r
  <1>2. app'[h] = new /\ app' = [g \in Hooks |-> app'[g]]
    BY DEF Onwards
  <1> QED BY <1>1, <1>2

LEMMA TypesNext ==
  ASSUME path' \in Seq(Entries) \cup {Torn, NoFile}, tmp' \in Seq(Entries) \cup {Torn, NoFile},
         app' \in [Hooks -> Appends]
  PROVE  SeenTypeOK'
  <1>1. DOMAIN SameName = Names
    BY DEF SameName, Names
  <1> QED BY <1>1 DEF SeenTypeOK, Appends

LEMMA SameNameType == SameName \in [Names -> Names] /\ \A n \in Names : SameName[n] = n
  BY DEF SameName, Names

(* A step of h on its own behalf: only h can be undisturbed after it.      *)
LEMMA OnwardsKeeps ==
  ASSUME SeenInv, NEW h \in Hooks, NEW new \in Appends, NEW rename \in [Names -> Names],
         Onwards(h, new, rename),
         path' \in Seq(Entries) \cup {Torn, NoFile}, tmp' \in Seq(Entries) \cup {Torn, NoFile},
         new.at # "idle" /\ ~new.crossed => Undisturbed(h)'
  PROVE  SeenInv'
  <1>1. /\ app' \in [Hooks -> Appends] /\ app'[h] = new
        /\ \A g \in Hooks \ {h} : app'[g].at = app[g].at /\ (app[g].at # "idle" => app'[g].crossed)
    BY OnwardsType DEF SeenInv
  <1>2. SeenTypeOK'
    BY <1>1, TypesNext
  <1>3. \A g \in Hooks : app'[g].at # "idle" /\ ~app'[g].crossed => Undisturbed(g)'
    BY <1>1
  <1> QED BY <1>2, <1>3 DEF SeenInv

LEMMA OpenKeeps ==
  ASSUME SeenInv, NEW h \in Hooks, OpenTmp(h)
  PROVE  SeenInv'
  <1> DEFINE r == app[h]
             new == [r EXCEPT !.at = "write", !.to = "tmp"]
  <1>1. r \in Appends /\ r.at = "open" /\ path' = path /\ tmp' = Torn /\ Seen' = Seen
    BY SeenTypes DEF SeenInv, OpenTmp, Seen
  <1>2. Onwards(h, new, SameName)
    BY DEF OpenTmp
  <1>3. ~r.crossed => r.text = Capped(Merge(Seen, r.ids))
    BY <1>1 DEF SeenInv, Undisturbed
  <1>4. r = [at |-> r.at, ids |-> r.ids, text |-> r.text, to |-> r.to, crossed |-> r.crossed]
    BY <1>1 DEF Appends
  <1>5. app'[h] = new
    BY <1>2 DEF Onwards
  <1> HIDE DEF r
  <1>6. /\ new.at = "write" /\ new.to = "tmp"
        /\ new.ids = r.ids /\ new.text = r.text /\ new.crossed = r.crossed
    BY <1>1 DEF Appends
  <1>7. new \in Appends
    BY <1>1 DEF Appends, Names
  <1>8. new.at # "idle" /\ ~new.crossed => Undisturbed(h)'
    BY <1>1, <1>3, <1>5, <1>6 DEF Undisturbed
  <1> HIDE DEF new
  <1> QED BY <1>1, <1>2, <1>7, <1>8, OnwardsKeeps, SameNameType, SeenTypes DEF SeenInv

LEMMA WrittenType ==
  ASSUME NEW old \in Seq(Entries) \cup {Torn, NoFile}, NEW text \in Seq(Entries)
  PROVE  Written(old, text) \in Seq(Entries) \cup {Torn, NoFile}
  BY DEF Written

LEMMA WriteKeeps ==
  ASSUME SeenInv, NEW h \in Hooks, WriteTmp(h)
  PROVE  SeenInv'
  <1> DEFINE r == app[h]
             new == [r EXCEPT !.at = "rename"]
  <1>1. /\ r \in Appends /\ r.at = "write"
        /\ tmp' = IF r.to = "tmp" THEN Written(tmp, r.text) ELSE tmp
        /\ path' = IF r.to = "path" THEN Written(path, r.text) ELSE path
    BY SeenTypes DEF SeenInv, WriteTmp
  <1>2. Onwards(h, new, SameName)
    BY DEF WriteTmp
  <1>3. ~r.crossed => r.text = Capped(Merge(Seen, r.ids)) /\ r.to = "tmp" /\ tmp = Torn
    BY <1>1 DEF SeenInv, Undisturbed
  <1>4. r = [at |-> r.at, ids |-> r.ids, text |-> r.text, to |-> r.to, crossed |-> r.crossed]
    BY <1>1 DEF Appends
  <1>5. app'[h] = new
    BY <1>2 DEF Onwards
  <1>6. /\ path \in Seq(Entries) \cup {Torn, NoFile}
        /\ tmp \in Seq(Entries) \cup {Torn, NoFile}
    BY SeenTypes DEF SeenInv
  <1> HIDE DEF r
  <1>7. /\ path' \in Seq(Entries) \cup {Torn, NoFile}
        /\ tmp' \in Seq(Entries) \cup {Torn, NoFile}
    BY <1>1, <1>6, WrittenType DEF Appends
  <1>8. new = [at |-> "rename", ids |-> r.ids, text |-> r.text, to |-> r.to, crossed |-> r.crossed]
    BY <1>4
  <1>9. new \in Appends
    BY <1>1, <1>8 DEF Appends, Names
  <1>10. ~r.crossed => Seen' = Seen /\ tmp' = r.text
    BY <1>1, <1>3 DEF Seen, Written
  <1>11. new.at # "idle" /\ ~new.crossed => Undisturbed(h)'
    BY <1>3, <1>5, <1>8, <1>10 DEF Undisturbed
  <1> HIDE DEF new
  <1> QED BY <1>2, <1>7, <1>9, <1>11, OnwardsKeeps, SameNameType

LEMMA UnusedType == Unused \in Appends /\ Unused.at = "idle"
  BY DEF Unused, Appends, Names

LEMMA RenameKeeps ==
  ASSUME SeenInv, NEW h \in Hooks, Rename(h)
  PROVE  SeenInv'
  <1> DEFINE moved == [SameName EXCEPT !["tmp"] = "path", !["path"] = "lost"]
  <1>1. moved \in [Names -> Names]
    BY DEF SameName, Names
  <1>2. /\ path' \in Seq(Entries) \cup {Torn, NoFile}
        /\ tmp' \in Seq(Entries) \cup {Torn, NoFile}
    BY SeenTypes DEF SeenInv, Rename
  <1>3. Onwards(h, Unused, SameName) \/ Onwards(h, Unused, moved)
    BY DEF Rename
  <1> HIDE DEF moved
  <1> QED BY <1>1, <1>2, <1>3, UnusedType, SameNameType, OnwardsKeeps

LEMMA KilledKeeps ==
  ASSUME SeenInv, NEW h \in Hooks, Killed(h)
  PROVE  SeenInv'
  <1>1. /\ app' = [app EXCEPT ![h] = Unused] /\ UNCHANGED <<path, tmp>> /\ Seen' = Seen
        /\ app \in [Hooks -> Appends]
    BY SeenTypes DEF Killed, SeenInv, Seen
  <1>2. /\ app' \in [Hooks -> Appends] /\ app'[h].at = "idle"
        /\ \A g \in Hooks : g # h => app'[g] = app[g]
    BY <1>1, UnusedType
  <1>3. SeenTypeOK'
    BY <1>1, <1>2, SeenTypes, TypesNext DEF SeenInv
  <1> QED BY <1>1, <1>2, <1>3 DEF SeenInv, Undisturbed

LEMMA SeenKeeps ==
  ASSUME SeenInv, SeenStep \/ UNCHANGED seenvars
  PROVE  SeenInv'
  <1>1. CASE UNCHANGED seenvars
    <2>1. Seen' = Seen /\ UNCHANGED <<path, tmp, app>>
      BY <1>1 DEF seenvars, Seen
    <2> QED BY <2>1 DEF SeenInv, SeenTypeOK, Undisturbed
  <1>2. CASE CleanUp
    <2>1. SeenTypeOK'
      BY <1>2, SeenTypes, TypesNext DEF CleanUp, SeenInv
    <2> QED BY <1>2, <2>1 DEF CleanUp, SeenInv
  <1>3. ASSUME NEW h \in Hooks, AppendStep(h) PROVE SeenInv'
    BY <1>3, OpenKeeps, WriteKeeps, KilledKeeps DEF AppendStep
  <1> QED BY <1>1, <1>2, <1>3, BeginKeeps, RenameKeeps DEF SeenStep

(* The step that SeenKept is about is the renaming of h.                   *)
LEMMA KeptStep ==
  ASSUME SeenInv, SeenStep, NEW h \in Hooks,
         app[h].at = "rename", app'[h].at = "idle", tmp # NoFile, tmp' = NoFile, ~app[h].crossed
  PROVE  Seen' = Capped(Merge(Seen, app[h].ids))
  <1>1. app \in [Hooks -> Appends] /\ app[h].text = Capped(Merge(Seen, app[h].ids)) /\ tmp = app[h].text
    BY SeenTypes DEF SeenInv, Undisturbed
  <1>2. \A g \in Hooks : ~OpenTmp(g) /\ ~Killed(g) /\ ~(\E ids \in Seq(Entries) : BeginAppend(g, ids))
    BY SeenConstants DEF OpenTmp, Killed, BeginAppend
  <1>3. ~CleanUp
    BY DEF CleanUp
  <1>4. ASSUME NEW g \in Hooks, WriteTmp(g) PROVE FALSE
    <2>1. app[g] \in Appends /\ app[g].at = "write" /\ Onwards(g, [app[g] EXCEPT !.at = "rename"], SameName)
      BY <1>1, <1>4 DEF WriteTmp
    <2>2. g # h
      BY <2>1
    <2>3. app'[h].at = app[h].at
      BY <1>1, <2>1, <2>2 DEF Onwards, Appends
    <2> QED BY <2>3
  <1>5. PICK g \in Hooks : Rename(g)
    BY <1>2, <1>3, <1>4 DEF SeenStep, AppendStep
  <1>6. path' = tmp
    BY <1>5 DEF Rename
  <1>7. path' \in Seq(Entries)
    BY <1>1, <1>6 DEF Appends
  <1> QED BY <1>1, <1>6, <1>7, SeenConstants DEF Seen

-----------------------------------------------------------------------------
(* Recall moves the seen file as SeenStore says.                           *)

HookStates == [at : {"idle", "refused", "asked", "answered", "append"},
               by : Daemons \cup {NoPid}, got : SUBSET Entries, lived : SUBSET Entries]

DaemonTypes ==
  /\ live \subseteq Entries
  /\ pidFile \in Daemons \cup {NoPid, Dead, Foreign}
  /\ port \in Daemons \cup {NoPid}
  /\ proc \in [Daemons -> Starting \cup {"off", "serving", "expired", "closing"}]

(* What a hook has got it got from a read of rows that came after its      *)
(* question: whatever was live at the time had been live since it asked.   *)
ShowInv ==
  /\ DaemonTypes
  /\ hook \in [Hooks -> HookStates]
  /\ \A h \in Hooks : Asking(h) => live \subseteq hook[h].lived
  /\ ShownWasLive

LEMMA GotIds ==
  ASSUME NEW got \in SUBSET Entries, NEW ids \in SetToSeqs(got)
  PROVE  ids \in Seq(Entries)
  <1> DEFINE n == Cardinality(got)
  <1>1. n \in Nat
    BY SeenConstants, FS_Subset, FS_CardinalityType
  <1>2. ids \in [1..n -> got]
    BY DEF SetToSeqs
  <1> HIDE DEF n
  <1> QED BY <1>1, <1>2

LEMMA RecallSeen ==
  ASSUME ShowInv, [RecallNext]_rvars
  PROVE  SeenStep \/ UNCHANGED seenvars
  <1>1. CASE UNCHANGED rvars
    BY <1>1 DEF rvars
  <1>2. ASSUME NEW h \in Hooks, Record(h) PROVE SeenStep
    <2>1. PICK ids \in SetToSeqs(hook[h].got) : BeginAppend(h, ids)
      BY <1>2 DEF Record
    <2>2. ids \in Seq(Entries)
      BY <2>1, GotIds DEF ShowInv, HookStates
    <2> QED BY <2>1, <2>2 DEF SeenStep
  <1>3. ASSUME NEW h \in Hooks, Show(h) \/ Appending(h) PROVE SeenStep
    BY <1>3 DEF Show, Appending, SeenStep
  <1>4. CASE Sweep
    BY <1>4 DEF Sweep, SeenStep
  <1>5. ASSUME NEW h \in Hooks, Ask(h) \/ TimeOut(h) \/ Answer(h) \/ \E d \in Daemons : Spawn(h, d)
        PROVE  UNCHANGED seenvars
    BY <1>5 DEF Ask, TimeOut, Answer, Spawn
  <1>6. ASSUME NEW d \in Daemons, Life(d) \/ Expire(d) \/ Die(d) PROVE UNCHANGED seenvars
    BY <1>6 DEF Life, CheckPid, ClaimPid, Bind, Shutdown, Exit, Expire, Die
  <1>7. ASSUME NEW e \in Governed, Govern(e) PROVE UNCHANGED seenvars
    BY <1>7 DEF Govern
  <1>8. CASE GivePid \/ RemoveStale
    BY <1>8 DEF GivePid, RemoveStale
  <1> QED BY <1>1, <1>2, <1>3, <1>4, <1>5, <1>6, <1>7, <1>8 DEF RecallNext

-----------------------------------------------------------------------------
(* The daemons and the hooks.                                              *)

LEMMA NoHookType ==
  /\ NoHook \in HookStates /\ NoHook.at = "idle" /\ NoHook.got = {}
  /\ \A at \in {"refused", "append"} :
       /\ [NoHook EXCEPT !.at = at] \in HookStates
       /\ [NoHook EXCEPT !.at = at].at = at /\ [NoHook EXCEPT !.at = at].got = {}
  BY DEF NoHook, HookStates

LEMMA ShowStart == RecallInit => ShowInv
  <1> SUFFICES ASSUME RecallInit PROVE ShowInv
    OBVIOUS
  <1>1. hook \in [Hooks -> HookStates] /\ \A h \in Hooks : hook[h] = NoHook
    BY NoHookType DEF RecallInit
  <1>2. DaemonTypes
    BY DEF RecallInit, DaemonTypes
  <1> QED BY <1>1, <1>2, NoHookType DEF ShowInv, Asking, ShownWasLive

(* A hook that goes on has asked, has got nothing, or got what it was live *)
(* to get.                                                                 *)
LEMMA HookMoves ==
  ASSUME ShowInv, DaemonTypes', live' = live, NEW h \in Hooks, NEW new \in HookStates,
         hook' = [hook EXCEPT ![h] = new],
         new.got \subseteq new.lived, new.at = "asked" => live \subseteq new.lived
  PROVE  ShowInv'
  <1>1. /\ hook' \in [Hooks -> HookStates] /\ hook'[h] = new
        /\ \A g \in Hooks : g # h => hook'[g] = hook[g]
    BY DEF ShowInv
  <1> QED BY <1>1 DEF ShowInv, Asking, ShownWasLive

LEMMA HooksKeep ==
  ASSUME ShowInv, NEW h \in Hooks,
         \/ Ask(h) \/ TimeOut(h) \/ Answer(h) \/ Record(h) \/ Show(h) \/ Appending(h)
         \/ \E d \in Daemons : Spawn(h, d)
  PROVE  ShowInv'
  <1>1. live' = live /\ DaemonTypes'
    <2>1. live' = live /\ UNCHANGED <<pidFile, port>>
      BY DEF Ask, TimeOut, Answer, Record, Show, Appending, Spawn, daemons
    <2>2. proc' \in [Daemons -> Starting \cup {"off", "serving", "expired", "closing"}]
      BY DEF ShowInv, DaemonTypes, Ask, TimeOut, Answer, Record, Show, Appending, Spawn, To, Starting,
             daemons
    <2> QED BY <2>1, <2>2 DEF ShowInv, DaemonTypes
  <1>2. CASE hook' = [hook EXCEPT ![h] = NoHook]
    BY <1>1, <1>2, NoHookType, HookMoves
  <1>3. ASSUME NEW at \in {"refused", "append"}, hook' = [hook EXCEPT ![h] = [NoHook EXCEPT !.at = at]]
        PROVE  ShowInv'
    BY <1>1, <1>3, NoHookType, HookMoves
  <1>4. CASE Ask(h)
    <2> DEFINE new == [NoHook EXCEPT !.at = "asked", !.by = port, !.lived = live]
    <2>1. CASE port = NoPid
      BY <1>3, <1>4, <2>1 DEF Ask
    <2>2. CASE port # NoPid
      <3>1. hook' = [hook EXCEPT ![h] = new]
        BY <1>4, <2>2 DEF Ask
      <3>2. new \in HookStates /\ new.got = {} /\ new.lived = live
        BY DEF NoHook, HookStates, ShowInv, DaemonTypes
      <3> HIDE DEF new
      <3> QED BY <1>1, <3>1, <3>2, HookMoves
    <2> QED BY <2>1, <2>2
  <1>5. CASE TimeOut(h) \/ Record(h)
    BY <1>3, <1>5 DEF TimeOut, Record
  <1>6. CASE Show(h) \/ \E d \in Daemons : Spawn(h, d)
    BY <1>2, <1>6 DEF Show, Spawn
  <1>7. CASE Appending(h)
    <2>1. CASE hook' = hook
      BY <1>1, <2>1 DEF ShowInv, Asking, ShownWasLive
    <2> QED BY <1>2, <1>7, <2>1 DEF Appending
  <1>8. CASE Answer(h)
    <2>1. PICK found \in Found :
            hook' = [hook EXCEPT ![h] =
              IF Recallable(found) = {} THEN NoHook
              ELSE [at |-> "answered", by |-> NoPid, got |-> Recallable(found),
                    lived |-> @.lived \cap Recallable(found)]]
      BY <1>8 DEF Answer
    <2> DEFINE got == Recallable(found)
               new == [at |-> "answered", by |-> NoPid, got |-> got, lived |-> hook[h].lived \cap got]
    <2>2. Asking(h) /\ hook' = [hook EXCEPT ![h] = IF got = {} THEN NoHook ELSE new]
      BY <1>8, <2>1 DEF Answer
    <2>3. got \subseteq hook[h].lived /\ got \subseteq Entries
      BY <2>2 DEF ShowInv, Recallable, DaemonTypes
    <2>4. new \in HookStates /\ new.got = got /\ new.lived = got /\ new.at = "answered"
      BY <2>3 DEF HookStates
    <2> HIDE DEF new
    <2>5. CASE got = {}
      BY <1>2, <2>2, <2>5
    <2>6. CASE got # {}
      <3>1. hook' = [hook EXCEPT ![h] = new]
        BY <2>2, <2>6
      <3> HIDE DEF got
      <3> QED BY <1>1, <2>4, <3>1, HookMoves
    <2> QED BY <2>5, <2>6
  <1> QED BY <1>4, <1>5, <1>6, <1>7, <1>8

(* What others do to the entries is added to what every hook that waits    *)
(* may be shown.                                                           *)
LEMMA GovernKeeps ==
  ASSUME ShowInv, NEW e \in Governed, Govern(e)
  PROVE  ShowInv'
  <1>1. live' \subseteq Entries /\ UNCHANGED <<pidFile, port, proc>>
    BY RecallConstants DEF Govern, ShowInv, DaemonTypes, daemons
  <1>2. ASSUME NEW h \in Hooks
        PROVE  /\ hook'[h] \in HookStates /\ hook'[h].got \subseteq hook'[h].lived
               /\ hook'[h].at = "asked" => live' \subseteq hook'[h].lived
    <2> DEFINE r == hook[h]
               new == [r EXCEPT !.lived = @ \cup live']
    <2>1. r \in HookStates /\ r.got \subseteq r.lived
      BY DEF ShowInv, ShownWasLive
    <2>2. hook'[h] = IF r.at = "asked" THEN new ELSE r
      BY DEF Govern, Asking
    <2> HIDE DEF r
    <2>3. new \in HookStates /\ new.lived = r.lived \cup live' /\ new.got = r.got
      BY <1>1, <2>1 DEF HookStates
    <2> HIDE DEF new
    <2> QED BY <2>1, <2>2, <2>3
  <1>3. hook' = [h \in Hooks |-> hook'[h]]
    BY DEF Govern
  <1> QED BY <1>1, <1>2, <1>3 DEF ShowInv, DaemonTypes, Asking, ShownWasLive

LEMMA DaemonsKeep ==
  ASSUME ShowInv, NEW d \in Daemons, Life(d) \/ Expire(d) \/ Die(d)
  PROVE  ShowInv'
  <1>1. live' = live
    BY DEF Life, CheckPid, ClaimPid, Bind, Shutdown, Exit, Expire, Die
  <1>2. hook' = hook \/ Unanswered(d)
    BY DEF Life, CheckPid, ClaimPid, Bind, Shutdown, Exit, Expire, Die
  <1>3. DaemonTypes'
    <2>1. pidFile' \in Daemons \cup {NoPid, Dead, Foreign} /\ port' \in Daemons \cup {NoPid}
      BY DEF ShowInv, DaemonTypes, Life, CheckPid, ClaimPid, Bind, Shutdown, Exit, Expire, Die, Gone
    <2>2. \E at \in Starting \cup {"off", "serving", "expired", "closing"} : To(d, at)
      BY DEF Life, CheckPid, ClaimPid, Bind, Shutdown, Exit, Expire, Die, Starting
    <2>3. proc' \in [Daemons -> Starting \cup {"off", "serving", "expired", "closing"}]
      BY <2>2 DEF ShowInv, DaemonTypes, To
    <2> QED BY <1>1, <2>1, <2>3 DEF ShowInv, DaemonTypes
  <1>4. /\ hook' \in [Hooks -> HookStates]
        /\ \A h \in Hooks : hook'[h] \in {hook[h], NoHook}
    BY <1>2, NoHookType DEF ShowInv, Unanswered
  <1> QED BY <1>1, <1>3, <1>4, NoHookType DEF ShowInv, Asking, ShownWasLive

LEMMA ShowStep == ShowInv /\ [RecallNext]_rvars => ShowInv'
  <1> SUFFICES ASSUME ShowInv, [RecallNext]_rvars PROVE ShowInv'
    OBVIOUS
  <1>1. CASE UNCHANGED rvars \/ Sweep
    <2>1. UNCHANGED <<live, pidFile, port, proc, hook>>
      BY <1>1 DEF rvars, Sweep, daemons
    <2> QED BY <2>1 DEF ShowInv, DaemonTypes, Asking, ShownWasLive
  <1>2. CASE GivePid \/ RemoveStale
    <2>1. pidFile' \in {NoPid, Dead, Foreign} /\ UNCHANGED <<live, port, proc, hook>>
      BY <1>2 DEF GivePid, RemoveStale
    <2> QED BY <2>1 DEF ShowInv, DaemonTypes, Asking, ShownWasLive
  <1> QED BY <1>1, <1>2, GovernKeeps, DaemonsKeep, HooksKeep DEF RecallNext

RecallInv == ShowInv /\ SeenInv

LEMMA RecallInductive ==
  /\ RecallInit => RecallInv
  /\ RecallInv /\ [RecallNext]_rvars => RecallInv'
  <1>1. RecallInit => RecallInv
    BY ShowStart, SeenStart DEF RecallInit, RecallInv
  <1>2. RecallInv /\ [RecallNext]_rvars => RecallInv'
    BY ShowStep, RecallSeen, SeenKeeps DEF RecallInv
  <1> QED BY <1>1, <1>2

-----------------------------------------------------------------------------
(* THEOREM: hooks, daemons, the pid file, the port and the seen file keep  *)
(* their types; the seen file is no file, a torn one or a list of ids.     *)
THEOREM RecallTypeCorrect == RecallSpec => []RecallTypeOK
  <1>1. RecallInv => RecallTypeOK
    BY DEF RecallInv, ShowInv, SeenInv, DaemonTypes, HookStates, RecallTypeOK
  <1> QED BY <1>1, RecallInductive, PTL DEF RecallSpec

(* THEOREM: whatever is denied, approved or invalidated between a question *)
(* and the block that is printed, and whatever daemon answers, no hook     *)
(* shows an entry that was out of recall all the while.                    *)
THEOREM ShownTheorem == RecallSpec => []ShownWasLive
  <1>1. RecallInv => ShownWasLive
    BY DEF RecallInv, ShowInv
  <1> QED BY <1>1, RecallInductive, PTL DEF RecallSpec

(* THEOREM: a hook that no other has come between renames over the seen    *)
(* file exactly what was in it and its own ids, less the oldest above      *)
(* seen_cap, for any number of hooks that read, write, rename and are      *)
(* killed on the same temporary file.                                      *)
THEOREM SeenTheorem == RecallSpec => SeenKept
  <1> DEFINE Kept ==
        \A h \in Hooks :
          app[h].at = "rename" /\ app'[h].at = "idle" /\ tmp # NoFile /\ tmp' = NoFile /\ ~app[h].crossed =>
            LET all == Merge(Seen, app[h].ids)
            IN  /\ IsSuffix(Seen', all)
                /\ Len(Seen') = IF Len(all) < Cap THEN Len(all) ELSE Cap
  <1>1. RecallInv /\ [RecallNext]_rvars => [Kept]_seenvars
    <2> SUFFICES ASSUME RecallInv, [RecallNext]_rvars, SeenStep, NEW h \in Hooks,
                        app[h].at = "rename", app'[h].at = "idle", tmp # NoFile, tmp' = NoFile,
                        ~app[h].crossed
                 PROVE  LET all == Merge(Seen, app[h].ids)
                        IN  /\ IsSuffix(Seen', all)
                            /\ Len(Seen') = IF Len(all) < Cap THEN Len(all) ELSE Cap
      BY RecallSeen DEF RecallInv
    <2> DEFINE all == Merge(Seen, app[h].ids)
    <2>1. Seen' = Capped(all)
      BY KeptStep DEF RecallInv
    <2>2. Seen \in Seq(Entries) /\ app[h].ids \in Seq(Entries)
      BY SeenTypes DEF RecallInv, SeenInv, Appends, Seen
    <2>3. all \in Seq(Entries)
      BY <2>2, MergeType
    <2> HIDE DEF all
    <2>4. IsSuffix(Seen', all) /\ Len(Seen') = IF Len(all) < Cap THEN Len(all) ELSE Cap
      BY <2>1, <2>3, CappedTail
    <2> QED BY <2>4 DEF all
  <1>2. [][Kept]_seenvars => SeenKept
    BY DEF SeenKept
  <1> QED BY <1>1, <1>2, RecallInductive, PTL DEF RecallSpec
=============================================================================
