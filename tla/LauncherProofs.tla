--------------------------- MODULE LauncherProofs ---------------------------
(***************************************************************************)
(* For all column definitions, cache sizes and numbers of launches, with   *)
(* failures and kills at any point, creations included: a storage in use   *)
(* has for every shard a file of its own, the same one that created it.    *)
(* And the split of the cache: whatever the columns and the total, no more *)
(* than the total is handed out, less than a megabyte per shard is lost,   *)
(* and a heavier column gets no less.                                      *)
(*                                                                         *)
(* The invariant relates the files on disk to the columns owned while they *)
(* are created one by one and after they were opened.  The split needs no  *)
(* invariant of its own: it is arithmetic about the largest remainders,    *)
(* whose sums over the list of columns are proved by induction on the      *)
(* length of the list.                                                     *)
(***************************************************************************)
EXTENDS Launcher, SequenceTheorems, FiniteSetTheorems, WellFoundedInduction, TLAPS

File == Nat \X Int

\* Every file of every column is on disk.
AllFiles == \A c \in DOMAIN defs : \A i \in 1 .. defs[c].shards : db_file_path(c, i - 1) \in disk

\* Creation has come to shard at[2] of column at[1]: the columns below are
\* complete and valid, this one has its first shards, the ones above none.
CreateInv ==
  pc = "create" =>
    /\ at \in Nat \X Nat /\ at[1] \in 1 .. Len(defs) + 1
    /\ at[1] \in DOMAIN defs /\ ~Invalid(at[1]) => at[2] < defs[at[1]].shards
    /\ owned \in [DOMAIN defs -> Seq(File)]
    /\ \A c \in DOMAIN defs :
         /\ c < at[1] => ~Invalid(c) /\ Len(owned[c]) = defs[c].shards
         /\ c = at[1] => Len(owned[c]) = at[2]
         /\ c > at[1] => owned[c] = <<>>
         /\ \A i \in 1 .. Len(owned[c]) : /\ owned[c][i] = db_file_path(c, i - 1)
                                          /\ owned[c][i] \in disk

\* What was created or opened is the layout of valid columns, and on disk.
OpenedInv ==
  pc \in {"persist", "remove"} \/ InUse =>
    /\ \A c \in DOMAIN defs : ~Invalid(c)
    /\ owned = Layout
    /\ AllFiles

IInv == TypeOK /\ CreateInv /\ OpenedInv

-----------------------------------------------------------------------------

\* db_defs() is a list of columns with natural weights and shards.
LEMMA DefsFacts ==
  ASSUME defs \in Defs
  PROVE  /\ Len(defs) \in Nat /\ DOMAIN defs = 1 .. Len(defs)
         /\ \A c \in DOMAIN defs : c \in Nat \ {0} /\ defs[c].shards \in Nat
<1>1. defs \in Seq([weight : Nat, shards : Nat])
  BY LauncherAssumption
<1>2. Len(defs) \in Nat /\ DOMAIN defs = 1 .. Len(defs)
  BY <1>1
<1>3. \A c \in DOMAIN defs : defs[c] \in [weight : Nat, shards : Nat]
  BY <1>1, ElementOfSeq, <1>2
<1>. QED  BY <1>2, <1>3

\* A database path tells the columns and, with db_file_path's suffix, the shards
\* of a column apart, and is of the form TypeOK states.
LEMMA PathFacts ==
  ASSUME defs \in Defs
  PROVE  /\ \A c \in DOMAIN defs : \A i \in 1 .. defs[c].shards :
              LET f == db_file_path(c, i - 1)
              IN  /\ f \in File /\ f[1] = c
                  /\ f[2] \in {NoSuffix} \cup 0..defs[c].shards - 1
         /\ \A c, d \in DOMAIN defs :
              \A i \in 1 .. defs[c].shards, j \in 1 .. defs[d].shards :
                db_file_path(c, i - 1) = db_file_path(d, j - 1) => c = d /\ i = j
BY DefsFacts DEF db_file_path, NoSuffix, File

\* The layout of the columns is a list of that many paths.
LEMMA LayoutFacts ==
  ASSUME defs \in Defs
  PROVE  /\ DOMAIN Layout = DOMAIN defs
         /\ \A c \in DOMAIN defs :
              /\ Layout[c] \in Seq(File) /\ Len(Layout[c]) = defs[c].shards
              /\ DOMAIN Layout[c] = 1 .. defs[c].shards
              /\ \A i \in 1 .. defs[c].shards : Layout[c][i] = db_file_path(c, i - 1)
<1>1. DOMAIN Layout = DOMAIN defs
  BY DEF Layout
<1>2. ASSUME NEW c \in DOMAIN defs
      PROVE  /\ Layout[c] \in Seq(File) /\ Len(Layout[c]) = defs[c].shards
             /\ DOMAIN Layout[c] = 1 .. defs[c].shards
             /\ \A i \in 1 .. defs[c].shards : Layout[c][i] = db_file_path(c, i - 1)
  <2>. DEFINE m == defs[c].shards
              P(i) == db_file_path(c, i - 1)
  <2>1. m \in Nat /\ \A i \in 1 .. m : P(i) \in File
    BY DefsFacts, PathFacts
  <2>2. Layout[c] = [i \in 1 .. m |-> P(i)]
    BY DEF Layout
  <2>. HIDE DEF m, P
  <2>3. [i \in 1 .. m |-> P(i)] \in Seq(File) /\ Len([i \in 1 .. m |-> P(i)]) = m
    BY <2>1
  <2>4. /\ Layout[c] \in Seq(File) /\ Len(Layout[c]) = m
        /\ DOMAIN Layout[c] = 1 .. m /\ \A i \in 1 .. m : Layout[c][i] = P(i)
    BY <2>2, <2>3
  <2>. QED  BY <2>4 DEF m, P
<1>. QED  BY <1>1, <1>2

-----------------------------------------------------------------------------
\* Nothing is created before the first launch.
LEMMA InitIInv == Init => IInv
<1>. SUFFICES ASSUME Init PROVE IInv
  OBVIOUS
<1>1. TypeOK
  BY DEF Init, TypeOK
<1>2. CreateInv /\ OpenedInv
  BY DEF Init, CreateInv, OpenedInv, InUse
<1>. QED  BY <1>1, <1>2 DEF IInv

\* What a step does to the files and the columns is told by db_file_path alone:
\* the columns of the program never change.
LEMMA DefsKept ==
  ASSUME Next \/ UNCHANGED vars
  PROVE  /\ defs' = defs /\ Layout' = Layout
         /\ \A c, i : db_file_path(c, i)' = db_file_path(c, i)
         /\ \A c : Invalid(c)' = Invalid(c)
<1>1. defs' = defs
  BY DEF Next, Launch, CreateDb, Created, OpenDbs, InitPersist, InitRemove, Validate,
         SyncStarts, SyncWedges, SyncEnds, SyncDisabled, Signal, CheckFlow, NothingToRun, BindFails,
         Teardown, Exit, Crash, vars
<1>. QED  BY <1>1 DEF Layout, db_file_path, Invalid

\* A step that leaves the files and the columns owned alone, neither enters a
\* creation nor takes into use what was not in use before.
LEMMA QuietStep ==
  ASSUME IInv, Next \/ UNCHANGED vars, TypeOK',
         disk' = disk, pc' # "create" \/ UNCHANGED <<pc, at, owned>>,
         pc' \in {"persist", "remove"} \/ InUse' =>
           UNCHANGED owned /\ (pc \in {"persist", "remove"} \/ InUse)
  PROVE  IInv'
<1>1. CreateInv'
  <2>1. ASSUME pc' = "create" PROVE UNCHANGED <<pc, at, owned, defs, disk>>
    BY <2>1, DefsKept
  <2>. QED  BY <2>1, DefsKept DEF IInv, CreateInv
<1>2. OpenedInv'
  BY DefsKept DEF IInv, OpenedInv, AllFiles
<1>. QED  BY <1>1, <1>2 DEF IInv

\* The columns of the program in a state of the invariant.
LEMMA Columns ==
  ASSUME IInv
  PROVE  /\ defs \in Defs
         /\ Len(defs) \in Nat /\ DOMAIN defs = 1 .. Len(defs)
         /\ \A c \in DOMAIN defs : c \in Nat \ {0} /\ defs[c].shards \in Nat
         /\ \A c \in DOMAIN defs : ~Invalid(c) => 0 < defs[c].shards
<1>1. defs \in Defs
  BY DEF IInv, TypeOK
<1>2. /\ Len(defs) \in Nat /\ DOMAIN defs = 1 .. Len(defs)
      /\ \A c \in DOMAIN defs : c \in Nat \ {0} /\ defs[c].shards \in Nat
  BY <1>1, DefsFacts
<1>3. \A c \in DOMAIN defs : ~Invalid(c) => 0 < defs[c].shards
  BY <1>2 DEF Invalid
<1>. QED  BY <1>1, <1>2, <1>3

\* Where a creation is.
LEMMA Position ==
  ASSUME IInv, pc = "create"
  PROVE  /\ at[1] \in Nat /\ at[2] \in Nat /\ at[1] \in 1 .. Len(defs) + 1
         /\ at[1] <= Len(defs) => at[1] \in DOMAIN defs
         /\ at[1] \in DOMAIN defs /\ ~Invalid(at[1]) =>
              at[2] < defs[at[1]].shards /\ at[2] + 1 \in 1 .. defs[at[1]].shards
         /\ (at[2] + 1) - 1 = at[2]
<1>1. /\ at \in Nat \X Nat /\ at[1] \in 1 .. Len(defs) + 1
      /\ at[1] \in DOMAIN defs /\ ~Invalid(at[1]) => at[2] < defs[at[1]].shards
  BY DEF IInv, CreateInv
<1>2. at[1] \in Nat /\ at[2] \in Nat
  BY <1>1
<1>. QED  BY <1>1, <1>2, Columns

\* Every step keeps the types; only build_owned_map_create adds a file, one of
\* the shards the column is defined with.
LEMMA TypeStep ==
  ASSUME IInv, Next \/ UNCHANGED vars
  PROVE  TypeOK'
<1>1. CASE CreateDb
  <2>. DEFINE c == at[1]
              file == db_file_path(c, at[2])
  <2>1. c \in DOMAIN defs /\ at[2] \in Nat /\ DOMAIN defs = 1 .. Len(defs)
    BY <1>1, Columns, Position DEF CreateDb
  <2>2. CASE UNCHANGED disk
    <3>1. /\ UNCHANGED <<defs, total, dir, tables, sample, config, flag, workers, wedged>>
          /\ pc' \in {pc, "failed"} /\ why' \in {why, "invalid", "create"}
      BY <1>1 DEF CreateDb, Fails
    <3>. QED  BY <2>2, <3>1 DEF IInv, TypeOK
  <2>3. CASE ~Invalid(c) /\ disk' = disk \cup {file} /\ UNCHANGED <<pc, why>>
    <3>1. at[2] + 1 \in 1 .. defs[c].shards /\ (at[2] + 1) - 1 = at[2]
      BY <1>1, <2>1, <2>3, Position DEF CreateDb
    <3>2. file[1] = c /\ file[2] \in {NoSuffix} \cup 0..defs[c].shards - 1
      BY <2>1, <3>1, PathFacts, Columns
    <3>3. UNCHANGED <<defs, total, dir, tables, sample, config, flag, workers, wedged>>
      BY <1>1 DEF CreateDb
    <3>. HIDE DEF c, file
    <3>. QED  BY <2>1, <2>3, <3>2, <3>3 DEF IInv, TypeOK
  <2>. QED  BY <1>1, <2>2, <2>3 DEF CreateDb
<1>2. CASE Launch
  BY <1>2 DEF Launch, Fails, IInv, TypeOK
<1>3. CASE Created \/ OpenDbs \/ InitPersist \/ InitRemove \/ Validate
  BY <1>3 DEF Created, OpenDbs, InitPersist, InitRemove, Validate, Fails, diskVars, IInv, TypeOK
<1>4. CASE SyncStarts \/ SyncWedges \/ SyncEnds \/ SyncDisabled \/ Signal \/ CheckFlow
  BY <1>4 DEF SyncStarts, SyncWedges, SyncEnds, SyncDisabled, Signal, CheckFlow, diskVars,
              IInv, TypeOK
<1>5. CASE NothingToRun \/ BindFails \/ Teardown \/ Exit \/ Crash
  BY <1>5 DEF NothingToRun, BindFails, Teardown, Exit, Crash, Fails, diskVars, IInv, TypeOK
<1>6. CASE UNCHANGED vars
  BY <1>6 DEF vars, diskVars, IInv, TypeOK
<1>. QED  BY <1>1, <1>2, <1>3, <1>4, <1>5, <1>6 DEF Next

\* StorageOwner::init on a new directory: no column has a shard yet.
LEMMA LaunchStep ==
  ASSUME IInv, Launch
  PROVE  IInv'
<1>1. TypeOK' /\ defs' = defs
  BY TypeStep, DefsKept DEF Next
<1>2. CASE pc' # "create"
  <2>1. disk' = disk /\ pc' \in {"failed", "open"}
    BY <1>2 DEF Launch, Fails
  <2>. QED  BY <1>1, <1>2, <2>1, QuietStep DEF Next, InUse
<1>3. CASE pc' = "create"
  <2>1. at' = <<1, 0>> /\ owned' = [c \in DOMAIN defs |-> <<>>]
    BY <1>3 DEF Launch, Fails
  <2>2. CreateInv'
    <3>1. /\ at' \in Nat \X Nat /\ at'[1] = 1 /\ at'[2] = 0
          /\ owned' \in [DOMAIN defs -> Seq(File)]
          /\ \A c \in DOMAIN defs : owned'[c] = <<>>
      BY <2>1
    <3>2. 1 \in 1 .. Len(defs) + 1 /\ \A c \in DOMAIN defs : ~(c < 1)
      BY Columns
    <3>3. \A c \in DOMAIN defs : ~Invalid(c) => 0 < defs[c].shards
      BY Columns
    <3>4. /\ defs' = defs /\ \A c : Invalid(c)' = Invalid(c)
          /\ \A c, i : db_file_path(c, i)' = db_file_path(c, i)
      BY DefsKept DEF Next
    <3>5. \A c \in DOMAIN defs : Len(owned'[c]) = 0
      BY <3>1
    <3>. QED  BY <3>1, <3>2, <3>3, <3>4, <3>5 DEF CreateInv
  <2>3. OpenedInv'
    BY <1>3 DEF OpenedInv, InUse
  <2>. QED  BY <1>1, <2>2, <2>3 DEF IInv
<1>. QED  BY <1>2, <1>3

\* build_owned_map_create: one more file, and the next shard or column.
LEMMA CreateDbStep ==
  ASSUME IInv, CreateDb
  PROVE  IInv'
<1>. DEFINE c == at[1]
            file == db_file_path(c, at[2])
<1>1. TypeOK' /\ defs' = defs
  BY TypeStep, DefsKept DEF Next
<1>2. CASE pc' # "create"
  <2>1. disk' = disk /\ pc' = "failed"
    BY <1>2 DEF CreateDb, Fails
  <2>. QED  BY <1>1, <2>1, QuietStep DEF Next, InUse
<1>3. CASE pc' = "create"
  <2>1. /\ pc = "create" /\ c \in 1 .. Len(defs) /\ c \in DOMAIN defs /\ at[2] \in Nat
        /\ at[1] \in Nat /\ defs[c].shards \in Nat /\ Len(defs) \in Nat
        /\ DOMAIN defs \subseteq Nat
    BY Columns, Position DEF CreateDb
  <2>2. /\ ~Invalid(c)
        /\ disk' = disk \cup {file}
        /\ owned' = [owned EXCEPT ![c] = Append(@, file)]
        /\ at' = IF at[2] + 1 < defs[c].shards THEN <<c, at[2] + 1>> ELSE <<c + 1, 0>>
    BY <1>3 DEF CreateDb, Fails
  <2>3. /\ owned \in [DOMAIN defs -> Seq(File)] /\ at[2] < defs[c].shards
        /\ owned[c] \in Seq(File) /\ Len(owned[c]) = at[2]
    BY <2>1, <2>2 DEF IInv, CreateInv
  <2>4. file \in File
    <3>1. at[2] + 1 \in 1 .. defs[c].shards /\ (at[2] + 1) - 1 = at[2]
      BY <2>1, <2>3
    <3>. QED  BY <2>1, <3>1, PathFacts, Columns
  <2>5. /\ owned'[c] \in Seq(File) /\ Len(owned'[c]) = at[2] + 1
        /\ \A i \in 1 .. at[2] : owned'[c][i] = owned[c][i]
        /\ owned'[c][at[2] + 1] = file
        /\ owned' \in [DOMAIN defs -> Seq(File)]
        /\ \A d \in DOMAIN defs \ {c} : owned'[d] = owned[d]
    <3>. HIDE DEF c, file
    <3>1. owned'[c] = Append(owned[c], file)
      BY <2>1, <2>2, <2>3
    <3>2. /\ owned'[c] \in Seq(File) /\ Len(owned'[c]) = at[2] + 1
          /\ \A i \in 1 .. at[2] : owned'[c][i] = owned[c][i]
          /\ owned'[c][at[2] + 1] = file
      BY <2>1, <2>3, <2>4, <3>1
    <3>. QED  BY <2>1, <2>2, <2>3, <3>2
  <2>6. CreateInv'
    <3>1. \A d \in DOMAIN defs : \A i \in 1 .. Len(owned'[d]) :
            owned'[d][i] = db_file_path(d, i - 1) /\ owned'[d][i] \in disk'
      <4>. SUFFICES ASSUME NEW d \in DOMAIN defs, NEW i \in 1 .. Len(owned'[d])
                    PROVE  owned'[d][i] = db_file_path(d, i - 1) /\ owned'[d][i] \in disk'
        OBVIOUS
      <4>1. CASE d # c
        BY <2>1, <2>2, <2>5, <4>1 DEF IInv, CreateInv
      <4>2. CASE d = c /\ i = at[2] + 1
        <5>1. i - 1 = at[2]
          BY <2>1, <4>2
        <5>. QED  BY <2>2, <2>5, <4>2, <5>1
      <4>3. CASE d = c /\ i # at[2] + 1
        <5>1. i \in 1 .. at[2] /\ i \in 1 .. Len(owned[c])
          BY <2>1, <2>3, <2>5, <4>3
        <5>2. owned[c][i] = db_file_path(c, i - 1) /\ owned[c][i] \in disk
          BY <2>1, <5>1 DEF IInv, CreateInv
        <5>. QED  BY <2>2, <2>5, <4>3, <5>1, <5>2
      <4>. QED  BY <4>1, <4>2, <4>3
    <3>2. CASE at[2] + 1 < defs[c].shards
      <4>1. at' = <<c, at[2] + 1>> /\ at'[1] = c /\ at'[2] = at[2] + 1 /\ at' \in Nat \X Nat
        BY <2>1, <2>2, <3>2
      <4>2. \A d \in DOMAIN defs :
              /\ d < c => ~Invalid(d) /\ Len(owned'[d]) = defs[d].shards
              /\ d = c => Len(owned'[d]) = at[2] + 1
              /\ d > c => owned'[d] = <<>>
        BY <2>1, <2>5 DEF IInv, CreateInv
      <4>3. c \in 1 .. Len(defs) + 1
        BY <2>1
      <4>. HIDE DEF c
      <4>. QED  BY <1>1, <2>5, <3>1, <3>2, <4>1, <4>2, <4>3, DefsKept DEF CreateInv, Next
    <3>3. CASE ~(at[2] + 1 < defs[c].shards)
      <4>1. at' = <<c + 1, 0>> /\ at'[1] = c + 1 /\ at'[2] = 0 /\ at' \in Nat \X Nat
        BY <2>1, <2>2, <3>3
      <4>2. at[2] + 1 = defs[c].shards
        BY <2>1, <2>3, <3>3
      <4>3. \A d \in DOMAIN defs :
              /\ d < c + 1 => ~Invalid(d) /\ Len(owned'[d]) = defs[d].shards
              /\ d = c + 1 => Len(owned'[d]) = 0
              /\ d > c + 1 => owned'[d] = <<>>
        <5>1. \A d \in DOMAIN defs :
                /\ d < c => ~Invalid(d) /\ Len(owned[d]) = defs[d].shards
                /\ d > c => owned[d] = <<>>
          BY <2>1 DEF IInv, CreateInv
        <5>. HIDE DEF c
        <5>2. \A d \in DOMAIN defs : /\ d < c + 1 => d < c \/ d = c
                                     /\ d = c + 1 \/ d > c + 1 => d > c /\ d # c
                                     /\ d < c => d # c
          BY <2>1 DEF c
        <5>. QED  BY <2>2, <2>5, <4>2, <5>1, <5>2
      <4>4. c + 1 \in 1 .. Len(defs) + 1
        BY <2>1
      <4>5. \A d \in DOMAIN defs : ~Invalid(d) => 0 < defs[d].shards
        BY Columns
      <4>6. /\ defs' = defs /\ \A d : Invalid(d)' = Invalid(d)
            /\ \A d, i : db_file_path(d, i)' = db_file_path(d, i)
        BY DefsKept DEF Next
      <4>. HIDE DEF c
      <4>. QED  BY <2>5, <3>1, <4>1, <4>3, <4>4, <4>5, <4>6 DEF CreateInv
    <3>. QED  BY <3>2, <3>3
  <2>7. OpenedInv'
    BY <1>3 DEF OpenedInv, InUse
  <2>. QED  BY <1>1, <2>6, <2>7 DEF IInv
<1>. QED  BY <1>2, <1>3

\* The last column is complete: what is owned is the whole layout.
LEMMA CreatedStep ==
  ASSUME IInv, Created
  PROVE  IInv'
<1>1. TypeOK' /\ defs' = defs /\ Layout' = Layout
  BY TypeStep, DefsKept DEF Next
<1>2. \A c \in DOMAIN defs : c < at[1]
  BY Columns, Position DEF Created
<1>3. \A c \in DOMAIN defs :
        /\ ~Invalid(c) /\ Len(owned[c]) = defs[c].shards /\ owned[c] \in Seq(File)
        /\ \A i \in 1 .. defs[c].shards : /\ owned[c][i] = db_file_path(c, i - 1)
                                          /\ owned[c][i] \in disk
  BY <1>2 DEF Created, IInv, CreateInv
<1>4. \A c \in DOMAIN defs : owned[c] = Layout[c]
  <2>. SUFFICES ASSUME NEW c \in DOMAIN defs PROVE owned[c] = Layout[c]
    OBVIOUS
  <2>1. /\ Layout[c] \in Seq(File) /\ Len(Layout[c]) = Len(owned[c]) /\ owned[c] \in Seq(File)
        /\ \A i \in 1 .. Len(owned[c]) : owned[c][i] = Layout[c][i]
    BY <1>3, LayoutFacts DEF IInv, TypeOK
  <2>. QED  BY <2>1, SeqEqual
<1>5. owned = Layout
  <2>1. owned = [c \in DOMAIN defs |-> owned[c]]
    BY DEF Created, IInv, CreateInv
  <2>2. Layout = [c \in DOMAIN defs |-> Layout[c]]
    BY DEF Layout
  <2>. QED  BY <1>4, <2>1, <2>2
<1>6. AllFiles
  BY <1>3 DEF AllFiles
<1>7. OpenedInv'
  BY <1>1, <1>3, <1>5, <1>6, DefsKept DEF OpenedInv, Created, AllFiles, diskVars, Next
<1>8. CreateInv'
  BY DEF Created, CreateInv
<1>. QED  BY <1>1, <1>7, <1>8 DEF IInv

\* build_owned_map_open takes what it finds complete.
LEMMA OpenStep ==
  ASSUME IInv, OpenDbs
  PROVE  IInv'
<1>1. TypeOK' /\ defs' = defs /\ Layout' = Layout /\ disk' = disk
  BY TypeStep, DefsKept DEF Next, OpenDbs, diskVars
<1>2. CASE pc' = "failed"
  BY <1>1, <1>2, QuietStep DEF Next, InUse
<1>3. CASE pc' # "failed"
  <2>1. /\ pc' = "validate" /\ owned' = Layout
        /\ \A c \in DOMAIN defs : ~Invalid(c)
        /\ \A c \in DOMAIN defs : \A i \in DOMAIN Layout[c] : Layout[c][i] \in disk
    BY <1>3 DEF OpenDbs, Fails
  <2>2. AllFiles
    BY <2>1, LayoutFacts DEF AllFiles, IInv, TypeOK
  <2>3. OpenedInv' /\ CreateInv'
    BY <1>1, <2>1, <2>2, DefsKept DEF OpenedInv, AllFiles, CreateInv, Next
  <2>. QED  BY <1>1, <2>3 DEF IInv
<1>. QED  BY <1>2, <1>3

\* All other steps neither create nor open a database.
LEMMA OtherStep ==
  ASSUME IInv,
         \/ InitPersist \/ InitRemove \/ Validate \/ SyncStarts \/ SyncWedges \/ SyncEnds
         \/ SyncDisabled \/ Signal \/ CheckFlow \/ NothingToRun \/ BindFails \/ Teardown \/ Exit \/ Crash
         \/ UNCHANGED vars
  PROVE  IInv'
<1>1. Next \/ UNCHANGED vars
  BY DEF Next
<1>2. TypeOK'
  BY <1>1, TypeStep
<1>3. CASE InitPersist \/ InitRemove \/ Validate
  BY <1>1, <1>2, <1>3, QuietStep
     DEF InitPersist, InitRemove, Validate, Fails, diskVars, InUse
<1>4. CASE SyncStarts \/ SyncWedges \/ SyncEnds \/ SyncDisabled \/ Signal \/ CheckFlow
  BY <1>1, <1>2, <1>4, QuietStep
     DEF SyncStarts, SyncWedges, SyncEnds, SyncDisabled, Signal, CheckFlow, diskVars, InUse
<1>5. CASE NothingToRun \/ BindFails \/ Teardown \/ Exit \/ Crash
  BY <1>1, <1>2, <1>5, QuietStep
     DEF NothingToRun, BindFails, Teardown, Exit, Crash, Fails, diskVars, InUse
<1>6. CASE UNCHANGED vars
  BY <1>1, <1>2, <1>6, QuietStep DEF vars, diskVars, InUse
<1>. QED  BY <1>3, <1>4, <1>5, <1>6

\* Every step preserves the invariant.
LEMMA NextIInv == IInv /\ [Next]_vars => IInv'
<1>. SUFFICES ASSUME IInv, [Next]_vars PROVE IInv'
  OBVIOUS
<1>1. CASE Launch
  BY <1>1, LaunchStep
<1>2. CASE CreateDb
  BY <1>2, CreateDbStep
<1>3. CASE Created
  BY <1>3, CreatedStep
<1>4. CASE OpenDbs
  BY <1>4, OpenStep
<1>5. CASE \/ InitPersist \/ InitRemove \/ Validate \/ SyncStarts \/ SyncWedges \/ SyncEnds
           \/ SyncDisabled \/ Signal \/ CheckFlow \/ NothingToRun \/ BindFails \/ Teardown \/ Exit \/ Crash
           \/ UNCHANGED vars
  BY <1>5, OtherStep
<1>. QED  BY <1>1, <1>2, <1>3, <1>4, <1>5 DEF Next

\* The invariant holds in every behaviour, interrupted creations included.
LEMMA FilesAndColumns == Spec => []IInv
BY InitIInv, NextIInv, PTL DEF Spec

\* The invariant says where the files of a storage in use are: db_file_path
\* gives each shard another one.
LEMMA OwnFiles == IInv => ShardsOwnTheirFiles
<1>. SUFFICES ASSUME IInv, InUse PROVE ShardsOwnTheirFiles
  BY DEF ShardsOwnTheirFiles
<1>1. owned = Layout /\ AllFiles /\ defs \in Defs
  BY Columns DEF IInv, OpenedInv
<1>2. \A c \in DOMAIN defs :
        /\ Len(owned[c]) = defs[c].shards /\ DOMAIN owned[c] = 1 .. defs[c].shards
        /\ \A i \in 1 .. defs[c].shards : owned[c][i] = db_file_path(c, i - 1)
  BY <1>1, LayoutFacts
<1>3. \A c \in DOMAIN defs : \A i \in 1 .. defs[c].shards : owned[c][i] \in disk
  BY <1>1, <1>2 DEF AllFiles
<1>4. ASSUME NEW c \in DOMAIN defs, NEW d \in DOMAIN defs,
             NEW i \in DOMAIN owned[c], NEW j \in DOMAIN owned[d], owned[c][i] = owned[d][j]
      PROVE  c = d /\ i = j
  <2>1. /\ i \in 1 .. defs[c].shards /\ j \in 1 .. defs[d].shards
        /\ db_file_path(c, i - 1) = db_file_path(d, j - 1)
    BY <1>2, <1>4
  <2>2. \A x, y \in DOMAIN defs : \A k \in 1 .. defs[x].shards, l \in 1 .. defs[y].shards :
          db_file_path(x, k - 1) = db_file_path(y, l - 1) => x = y /\ k = l
    BY <1>1, PathFacts
  <2>. QED  BY <2>1, <2>2
<1>. QED  BY <1>1, <1>2, <1>3, <1>4 DEF ShardsOwnTheirFiles

\* The state of a Launcher is well-typed in every reachable state: in particular
\* no launch creates a file that is not one of a column's shards.
THEOREM TypeCorrect == Spec => []TypeOK
<1>1. IInv => TypeOK
  BY DEF IInv
<1>. QED  BY <1>1, FilesAndColumns, PTL

\* Whether a storage was created or opened, and whether or not creations were
\* interrupted: while a process works on it, every shard of every column is
\* backed by an existing file that no other shard has, the i-th shard by the same
\* one in every launch (StorageOwner::init).
THEOREM ShardsKeepFiles == Spec => []ShardsOwnTheirFiles
BY FilesAndColumns, OwnFiles, PTL

-----------------------------------------------------------------------------
(***************************************************************************)
(* The split of the cache                                                  *)
(***************************************************************************)

\* Induction over the natural numbers: a set with 0 and with every successor of
\* its elements has no least number outside it (used for lists of columns).
LEMMA NatInd ==
  ASSUME NEW S \in SUBSET Nat, 0 \in S, \A n \in S : n + 1 \in S
  PROVE  S = Nat
<1>. DEFINE T == Nat \ S
            R == {p \in Nat \X Nat : p[1] < p[2]}
<1>. SUFFICES ASSUME T # {} PROVE FALSE
  OBVIOUS
<1>1. IsWellFoundedOn(R, Nat)
  BY NatLessThanWellFounded, Zenon DEF OpToRel
<1>2. ASSUME NEW y \in Nat, NEW x \in Nat, y < x PROVE <<y, x>> \in R
  BY <1>2
<1>. HIDE DEF R
<1>3. T \in SUBSET Nat
  OBVIOUS
<1>4. PICK x \in T : \A y \in T : ~ (<<y, x>> \in R)
  <2>. HIDE DEF T
  <2>. QED  BY <1>1, <1>3, WFMin
<1>5. x \in Nat /\ x # 0 /\ x - 1 \in Nat /\ x - 1 < x /\ (x - 1) + 1 = x
  OBVIOUS
<1>6. x - 1 \in T
  BY <1>5
<1>. QED  BY <1>2, <1>4, <1>5, <1>6

\* g sums s over the subsets of 1 .. n from the largest index down,
\* the recursion of FoldLeft.
SumFold(g, s, n) ==
  g = [t \in SUBSET (1 .. n) |-> IF t = {} THEN 0 ELSE g[t \ {Max(t)}] + s[Max(t)]]

\* The largest index of a set with n in it is n.
LEMMA MaxIs ==
  ASSUME NEW n \in Nat, NEW t \in SUBSET (1 .. n), n \in t
  PROVE  Max(t) = n
<1>1. \A y \in t : y \in Int /\ n >= y
  OBVIOUS
<1>2. Max(t) \in t /\ \A y \in t : Max(t) >= y
  BY <1>1 DEF Max
<1>3. Max(t) \in Int /\ n >= Max(t) /\ Max(t) >= n
  BY <1>1, <1>2
<1>. QED  BY <1>3

\* Such a fold exists for every length of the sequence.
LEMMA SumFoldExists ==
  ASSUME NEW s
  PROVE  \A n \in Nat : \E g : SumFold(g, s, n)
<1>. DEFINE S == {n \in Nat : \E g : SumFold(g, s, n)}
<1>1. 0 \in S
  <2>. DEFINE g == [t \in SUBSET (1 .. 0) |-> 0]
  <2>1. SUBSET (1 .. 0) = {{}}
    OBVIOUS
  <2>2. SumFold(g, s, 0)
    BY <2>1 DEF SumFold
  <2>. QED  BY <2>2
<1>2. ASSUME NEW n \in S PROVE n + 1 \in S
  <2>1. PICK g : SumFold(g, s, n)
    OBVIOUS
  <2>. DEFINE h == [t \in SUBSET (1 .. (n + 1)) |->
                      IF n + 1 \in t THEN g[t \ {n + 1}] + s[n + 1] ELSE g[t]]
              k == [t \in SUBSET (1 .. (n + 1)) |->
                      IF t = {} THEN 0 ELSE h[t \ {Max(t)}] + s[Max(t)]]
  <2>2. ASSUME NEW t \in SUBSET (1 .. n)
        PROVE  /\ g[t] = IF t = {} THEN 0 ELSE g[t \ {Max(t)}] + s[Max(t)]
               /\ g[t] = h[t]
    <3>1. t \in SUBSET (1 .. (n + 1)) /\ n + 1 \notin t
      OBVIOUS
    <3>2. h[t] = g[t]
      BY <3>1
    <3>3. g[t] = IF t = {} THEN 0 ELSE g[t \ {Max(t)}] + s[Max(t)]
      BY <2>1 DEF SumFold
    <3>. QED  BY <3>2, <3>3
  <2>3. ASSUME NEW t \in SUBSET (1 .. (n + 1)) PROVE h[t] = k[t]
    <3>1. CASE n + 1 \in t
      <4>1. Max(t) = n + 1 /\ t # {}
        BY <3>1, MaxIs
      <4>2. t \ {n + 1} \in SUBSET (1 .. n)
        OBVIOUS
      <4>3. h[t] = g[t \ {n + 1}] + s[n + 1]
        BY <3>1
      <4>4. g[t \ {n + 1}] = h[t \ {n + 1}]
        <5>. HIDE DEF h
        <5>. QED  BY <2>2, <4>2
      <4>5. k[t] = h[t \ {n + 1}] + s[n + 1]
        <5>. HIDE DEF h
        <5>. QED  BY <4>1
      <4>. QED  BY <4>3, <4>4, <4>5
    <3>2. CASE n + 1 \notin t
      <4>1. t \in SUBSET (1 .. n)
        BY <3>2
      <4>2. h[t] = g[t] /\ g[t] = IF t = {} THEN 0 ELSE g[t \ {Max(t)}] + s[Max(t)]
        <5>. HIDE DEF h
        <5>. QED  BY <2>2, <4>1
      <4>3. t \ {Max(t)} \in SUBSET (1 .. n)
        BY <4>1
      <4>4. g[t \ {Max(t)}] = h[t \ {Max(t)}]
        <5>. HIDE DEF h
        <5>. QED  BY <2>2, <4>3
      <4>5. k[t] = IF t = {} THEN 0 ELSE h[t \ {Max(t)}] + s[Max(t)]
        <5>. HIDE DEF h
        <5>. QED  OBVIOUS
      <4>. HIDE DEF h, k
      <4>. QED  BY <4>2, <4>4, <4>5
    <3>. QED  BY <3>1, <3>2
  <2>4. h = k
    <3>1. DOMAIN h = SUBSET (1 .. (n + 1)) /\ DOMAIN k = SUBSET (1 .. (n + 1))
      OBVIOUS
    <3>2. h = [t \in SUBSET (1 .. (n + 1)) |-> h[t]] /\ k = [t \in SUBSET (1 .. (n + 1)) |-> k[t]]
      OBVIOUS
    <3>. HIDE DEF h, k
    <3>. QED  BY <2>3, <3>2
  <2>5. SumFold(h, s, n + 1)
    <3>1. h = [t \in SUBSET (1 .. (n + 1)) |->
                 IF t = {} THEN 0 ELSE h[t \ {Max(t)}] + s[Max(t)]]
      <4>. HIDE DEF h
      <4>. QED  BY <2>4
    <3>. HIDE DEF h
    <3>. QED  BY <3>1 DEF SumFold
  <2>. QED  BY <2>5
<1>3. S = Nat
  <2>1. S \in SUBSET Nat
    OBVIOUS
  <2>. HIDE DEF S
  <2>. QED  BY <1>1, <1>2, <2>1, NatInd
<1>. QED  BY <1>3

\* Along the initial segments such a fold is the running sum.
LEMMA SumFoldStep ==
  ASSUME NEW s, NEW n \in Nat, NEW g, SumFold(g, s, n)
  PROVE  /\ g[1 .. 0] = 0
         /\ \A k \in 0 .. (n - 1) : g[1 .. (k + 1)] = g[1 .. k] + s[k + 1]
<1>1. ASSUME NEW t \in SUBSET (1 .. n)
      PROVE  g[t] = IF t = {} THEN 0 ELSE g[t \ {Max(t)}] + s[Max(t)]
  BY DEF SumFold
<1>2. g[1 .. 0] = 0
  <2>1. 1 .. 0 \in SUBSET (1 .. n) /\ 1 .. 0 = {}
    OBVIOUS
  <2>. QED  BY <1>1, <2>1
<1>3. ASSUME NEW k \in 0 .. (n - 1)
      PROVE  g[1 .. (k + 1)] = g[1 .. k] + s[k + 1]
  <2>. DEFINE t == 1 .. (k + 1)
  <2>1. t \in SUBSET (1 .. n) /\ t # {} /\ k + 1 \in t /\ k + 1 \in Nat
    OBVIOUS
  <2>2. Max(t) = k + 1
    BY <2>1, MaxIs
  <2>3. t \ {k + 1} = 1 .. k
    OBVIOUS
  <2>. HIDE DEF t
  <2>4. g[t] = g[t \ {Max(t)}] + s[Max(t)]
    BY <1>1, <2>1
  <2>5. g[t] = g[1 .. k] + s[k + 1]
    BY <2>2, <2>3, <2>4
  <2>. QED  BY <2>5 DEF t
<1>. QED  BY <1>2, <1>3

\* A sum is such a fold over the whole sequence.
LEMMA SumOfIs ==
  ASSUME NEW s \in Seq(Nat)
  PROVE  \E g : SumFold(g, s, Len(s)) /\ SumOf(s) = g[1 .. Len(s)]
<1>1. DOMAIN s = 1 .. Len(s) /\ Len(s) \in Nat
  OBVIOUS
<1>2. SumOf(s) = (CHOOSE g : SumFold(g, s, Len(s)))[1 .. Len(s)]
  BY <1>1 DEF SumOf, FoldLeft, MapThenFoldSet, SumFold
<1>3. \E g : SumFold(g, s, Len(s))
  BY <1>1, SumFoldExists
<1>. DEFINE f == CHOOSE g : SumFold(g, s, Len(s))
<1>4. SumFold(f, s, Len(s))
  BY <1>3
<1>. QED  BY <1>2, <1>4

\* A set of numbers that is not empty has a least element, the one Min chooses.
LEMMA MinInSet ==
  ASSUME NEW S \in SUBSET Nat, S # {}
  PROVE  Min(S) \in S /\ \A y \in S : Min(S) <= y
<1>. DEFINE Up == {n \in Nat : \A y \in S : n <= y}
<1>1. PICK x \in S : \A y \in S : x <= y
  <2>. SUFFICES ASSUME \A x \in S : \E y \in S : ~ (x <= y) PROVE FALSE
    OBVIOUS
  <2>1. 0 \in Up
    OBVIOUS
  <2>2. ASSUME NEW n \in Up PROVE n + 1 \in Up
    <3>1. n \notin S
      OBVIOUS
    <3>2. ASSUME NEW y \in S PROVE n + 1 <= y
      <4>1. n <= y /\ n # y /\ y \in Nat
        BY <3>1
      <4>. QED  BY <4>1
    <3>. QED  BY <3>2
  <2>3. Up = Nat
    <3>1. Up \in SUBSET Nat
      OBVIOUS
    <3>. HIDE DEF Up
    <3>. QED  BY <2>1, <2>2, <3>1, NatInd
  <2>4. PICK y \in S : TRUE
    OBVIOUS
  <2>5. y + 1 \in Up
    BY <2>3
  <2>. QED  BY <2>5
<1>. QED  BY <1>1 DEF Min

\* A set of numbers up to n that is not empty has a largest one, Max.
LEMMA MaxInSet ==
  ASSUME NEW n \in Nat, NEW S \in SUBSET (0 .. n), S # {}
  PROVE  Max(S) \in S /\ \A y \in S : Max(S) >= y
<1>. DEFINE T == {n - y : y \in S}
<1>1. T \in SUBSET Nat /\ T # {}
  <2>1. \A y \in S : n - y \in Nat
    OBVIOUS
  <2>. QED  BY <2>1
<1>2. Min(T) \in T /\ \A y \in T : Min(T) <= y
  <2>. HIDE DEF T
  <2>. QED  BY <1>1, MinInSet
<1>3. PICK x \in S : Min(T) = n - x
  BY <1>2
<1>4. ASSUME NEW y \in S PROVE x >= y
  <2>1. n - y \in T
    OBVIOUS
  <2>2. n - x <= n - y
    BY <1>2, <1>3, <2>1
  <2>. QED  BY <2>2
<1>5. \E z \in S : \A y \in S : z >= y
  BY <1>4
<1>. QED  BY <1>5 DEF Max

\* The running sums of a list of numbers; the last one is its sum.
LEMMA RunningSums ==
  ASSUME NEW s \in Seq(Nat)
  PROVE  \E g \in [Nat -> Nat] : /\ g[0] = 0
                                 /\ \A k \in 0 .. (Len(s) - 1) : g[k + 1] = g[k] + s[k + 1]
                                 /\ SumOf(s) = g[Len(s)]
<1>. DEFINE n == Len(s)
<1>0. n \in Nat /\ \A i \in 1 .. n : s[i] \in Nat
  OBVIOUS
<1>1. PICK f : SumFold(f, s, n) /\ SumOf(s) = f[1 .. n]
  BY SumOfIs
<1>2. /\ f[1 .. 0] = 0
      /\ \A k \in 0 .. (n - 1) : f[1 .. (k + 1)] = f[1 .. k] + s[k + 1]
  BY <1>0, <1>1, SumFoldStep
<1>. HIDE DEF n
<1>. DEFINE S == {k \in Nat : k <= n => f[1 .. k] \in Nat}
<1>3. 0 \in S
  BY <1>2
<1>4. ASSUME NEW k \in S PROVE k + 1 \in S
  <2>. SUFFICES ASSUME k + 1 <= n PROVE f[1 .. (k + 1)] \in Nat
    OBVIOUS
  <2>1. k \in 0 .. (n - 1) /\ k + 1 \in 1 .. n /\ k <= n
    BY <1>0
  <2>2. f[1 .. k] \in Nat /\ s[k + 1] \in Nat
    BY <1>0, <2>1
  <2>. QED  BY <1>2, <2>1, <2>2
<1>5. S = Nat
  <2>1. S \in SUBSET Nat
    OBVIOUS
  <2>. HIDE DEF S
  <2>. QED  BY <1>3, <1>4, <2>1, NatInd
<1>. DEFINE g == [k \in Nat |-> IF k <= n THEN f[1 .. k] ELSE 0]
<1>6. g \in [Nat -> Nat]
  BY <1>5
<1>7. g[0] = 0 /\ g[n] = f[1 .. n]
  BY <1>0, <1>2
<1>8. ASSUME NEW k \in 0 .. (n - 1) PROVE g[k + 1] = g[k] + s[k + 1]
  <2>1. k \in Nat /\ k + 1 \in Nat /\ k <= n /\ k + 1 <= n
    BY <1>0
  <2>2. g[k] = f[1 .. k] /\ g[k + 1] = f[1 .. (k + 1)]
    BY <2>1
  <2>. QED  BY <1>2, <2>2
<1>. HIDE DEF g
<1>. QED  BY <1>1, <1>6, <1>7, <1>8 DEF n

\* Arithmetic of the running sums.
LEMMA AddLe ==
  ASSUME NEW a \in Nat, NEW b \in Nat, NEW c \in Nat, NEW d \in Nat, a <= b, c <= d
  PROVE  a + c <= b + d
OBVIOUS

\* Multiplication distributes over addition.
LEMMA Distribute ==
  ASSUME NEW a \in Nat, NEW b \in Nat, NEW c \in Nat
  PROVE  c * (a + b) = c * a + c * b
OBVIOUS

\* A list that is nowhere greater has no greater sum.
LEMMA SumLe ==
  ASSUME NEW s \in Seq(Nat), NEW t \in Seq(Nat), Len(s) = Len(t),
         \A i \in 1 .. Len(s) : s[i] <= t[i]
  PROVE  SumOf(s) \in Nat /\ SumOf(s) <= SumOf(t)
<1>. DEFINE n == Len(s)
<1>0. n \in Nat /\ \A i \in 1 .. n : s[i] \in Nat /\ t[i] \in Nat
  OBVIOUS
<1>1. PICK g \in [Nat -> Nat] : /\ g[0] = 0
                                /\ \A k \in 0 .. (n - 1) : g[k + 1] = g[k] + s[k + 1]
                                /\ SumOf(s) = g[n]
  BY RunningSums
<1>2. PICK h \in [Nat -> Nat] : /\ h[0] = 0
                                /\ \A k \in 0 .. (n - 1) : h[k + 1] = h[k] + t[k + 1]
                                /\ SumOf(t) = h[n]
  BY RunningSums
<1>3. \A i \in 1 .. n : s[i] <= t[i]
  OBVIOUS
<1>. HIDE DEF n
<1>. DEFINE S == {k \in Nat : k <= n => g[k] <= h[k]}
<1>4. 0 \in S
  BY <1>1, <1>2
<1>5. ASSUME NEW k \in S PROVE k + 1 \in S
  <2>. SUFFICES ASSUME k + 1 <= n PROVE g[k + 1] <= h[k + 1]
    OBVIOUS
  <2>1. k \in 0 .. (n - 1) /\ k + 1 \in 1 .. n /\ k <= n
    BY <1>0
  <2>2. g[k + 1] = g[k] + s[k + 1] /\ h[k + 1] = h[k] + t[k + 1]
    BY <1>1, <1>2, <2>1
  <2>3. g[k] <= h[k] /\ s[k + 1] <= t[k + 1] /\ g[k] \in Nat /\ h[k] \in Nat
        /\ s[k + 1] \in Nat /\ t[k + 1] \in Nat
    BY <1>0, <1>3, <2>1
  <2>4. g[k] + s[k + 1] <= h[k] + t[k + 1]
    <3>. HIDE DEF S
    <3>. QED  BY <2>3, AddLe
  <2>. QED  BY <2>2, <2>4
<1>6. S = Nat
  <2>1. S \in SUBSET Nat
    OBVIOUS
  <2>. HIDE DEF S
  <2>. QED  BY <1>4, <1>5, <2>1, NatInd
<1>7. n \in S
  <2>. HIDE DEF S
  <2>. QED  BY <1>0, <1>6
<1>8. g[n] <= h[n] /\ g[n] \in Nat
  BY <1>0, <1>7
<1>. QED  BY <1>1, <1>2, <1>8

\* Sums add up.
LEMMA SumPlus ==
  ASSUME NEW s \in Seq(Nat), NEW t \in Seq(Nat), NEW u \in Seq(Nat), Len(s) = Len(t), Len(u) = Len(s),
         \A i \in 1 .. Len(s) : u[i] = s[i] + t[i]
  PROVE  SumOf(u) = SumOf(s) + SumOf(t) /\ SumOf(s) \in Nat /\ SumOf(t) \in Nat
<1>. DEFINE n == Len(s)
<1>0. n \in Nat /\ \A i \in 1 .. n : s[i] \in Nat /\ t[i] \in Nat
  OBVIOUS
<1>1. PICK g \in [Nat -> Nat] : /\ g[0] = 0
                                /\ \A k \in 0 .. (n - 1) : g[k + 1] = g[k] + s[k + 1]
                                /\ SumOf(s) = g[n]
  BY RunningSums
<1>2. PICK h \in [Nat -> Nat] : /\ h[0] = 0
                                /\ \A k \in 0 .. (n - 1) : h[k + 1] = h[k] + t[k + 1]
                                /\ SumOf(t) = h[n]
  BY RunningSums
<1>3. PICK f \in [Nat -> Nat] : /\ f[0] = 0
                                /\ \A k \in 0 .. (n - 1) : f[k + 1] = f[k] + u[k + 1]
                                /\ SumOf(u) = f[n]
  BY RunningSums
<1>4. \A i \in 1 .. n : u[i] = s[i] + t[i]
  OBVIOUS
<1>. HIDE DEF n
<1>. DEFINE S == {k \in Nat : k <= n => f[k] = g[k] + h[k]}
<1>5. 0 \in S
  BY <1>1, <1>2, <1>3
<1>6. ASSUME NEW k \in S PROVE k + 1 \in S
  <2>. SUFFICES ASSUME k + 1 <= n PROVE f[k + 1] = g[k + 1] + h[k + 1]
    OBVIOUS
  <2>1. k \in 0 .. (n - 1) /\ k + 1 \in 1 .. n /\ k <= n
    BY <1>0
  <2>2. /\ g[k + 1] = g[k] + s[k + 1] /\ h[k + 1] = h[k] + t[k + 1]
        /\ f[k + 1] = f[k] + u[k + 1]
    BY <1>1, <1>2, <1>3, <2>1
  <2>3. /\ f[k] = g[k] + h[k] /\ u[k + 1] = s[k + 1] + t[k + 1] /\ g[k] \in Nat /\ h[k] \in Nat
        /\ s[k + 1] \in Nat /\ t[k + 1] \in Nat
    BY <1>0, <1>4, <2>1
  <2>4. (g[k] + h[k]) + (s[k + 1] + t[k + 1]) = (g[k] + s[k + 1]) + (h[k] + t[k + 1])
    <3>. HIDE DEF S
    <3>. DEFINE a == g[k]
                b == h[k]
                c == s[k + 1]
                d == t[k + 1]
    <3>1. a \in Nat /\ b \in Nat /\ c \in Nat /\ d \in Nat
      BY <2>3
    <3>. HIDE DEF a, b, c, d
    <3>2. (a + b) + (c + d) = (a + c) + (b + d)
      BY <3>1
    <3>. QED  BY <3>2 DEF a, b, c, d
  <2>. HIDE DEF S
  <2>. QED  BY <2>2, <2>3, <2>4
<1>7. S = Nat
  <2>1. S \in SUBSET Nat
    OBVIOUS
  <2>. HIDE DEF S
  <2>. QED  BY <1>5, <1>6, <2>1, NatInd
<1>8. n \in S
  <2>. HIDE DEF S
  <2>. QED  BY <1>0, <1>7
<1>9. f[n] = g[n] + h[n] /\ g[n] \in Nat /\ h[n] \in Nat
  BY <1>0, <1>8
<1>. QED  BY <1>1, <1>2, <1>3, <1>9

\* A common factor can be taken out of a sum.
LEMMA SumTimes ==
  ASSUME NEW s \in Seq(Nat), NEW u \in Seq(Nat), NEW c \in Nat, Len(u) = Len(s),
         \A i \in 1 .. Len(s) : u[i] = c * s[i]
  PROVE  SumOf(u) = c * SumOf(s) /\ SumOf(s) \in Nat
<1>. DEFINE n == Len(s)
<1>0. n \in Nat /\ \A i \in 1 .. n : s[i] \in Nat
  OBVIOUS
<1>1. PICK g \in [Nat -> Nat] : /\ g[0] = 0
                                /\ \A k \in 0 .. (n - 1) : g[k + 1] = g[k] + s[k + 1]
                                /\ SumOf(s) = g[n]
  BY RunningSums
<1>2. PICK f \in [Nat -> Nat] : /\ f[0] = 0
                                /\ \A k \in 0 .. (n - 1) : f[k + 1] = f[k] + u[k + 1]
                                /\ SumOf(u) = f[n]
  BY RunningSums
<1>3. \A i \in 1 .. n : u[i] = c * s[i]
  OBVIOUS
<1>. HIDE DEF n
<1>. DEFINE S == {k \in Nat : k <= n => f[k] = c * g[k]}
<1>4. 0 \in S
  BY <1>1, <1>2
<1>5. ASSUME NEW k \in S PROVE k + 1 \in S
  <2>. SUFFICES ASSUME k + 1 <= n PROVE f[k + 1] = c * g[k + 1]
    OBVIOUS
  <2>1. k \in 0 .. (n - 1) /\ k + 1 \in 1 .. n /\ k <= n
    BY <1>0
  <2>2. g[k + 1] = g[k] + s[k + 1] /\ f[k + 1] = f[k] + u[k + 1]
    BY <1>1, <1>2, <2>1
  <2>3. f[k] = c * g[k] /\ u[k + 1] = c * s[k + 1] /\ g[k] \in Nat /\ s[k + 1] \in Nat
    BY <1>0, <1>3, <2>1
  <2>4. c * (g[k] + s[k + 1]) = c * g[k] + c * s[k + 1]
    <3>. HIDE DEF S
    <3>. QED  BY <2>3, Distribute, Zenon
  <2>. HIDE DEF S
  <2>. QED  BY <2>2, <2>3, <2>4
<1>6. S = Nat
  <2>1. S \in SUBSET Nat
    OBVIOUS
  <2>. HIDE DEF S
  <2>. QED  BY <1>4, <1>5, <2>1, NatInd
<1>7. n \in S
  <2>. HIDE DEF S
  <2>. QED  BY <1>0, <1>6
<1>8. f[n] = c * g[n] /\ g[n] \in Nat
  BY <1>0, <1>7
<1>. QED  BY <1>1, <1>2, <1>8

\* One more number.
LEMMA UpTo ==
  ASSUME NEW k \in Nat
  PROVE  1 .. (k + 1) = (1 .. k) \cup {k + 1} /\ k + 1 \notin 1 .. k
OBVIOUS

\* A sum of zeros and ones counts the ones.
LEMMA SumCounts ==
  ASSUME NEW s \in Seq({0, 1})
  PROVE  SumOf(s) = Cardinality({i \in 1 .. Len(s) : s[i] = 1})
<1>. DEFINE n == Len(s)
            Ones(k) == {i \in 1 .. k : s[i] = 1}
<1>0. n \in Nat /\ s \in Seq(Nat) /\ \A i \in 1 .. n : s[i] \in {0, 1}
  OBVIOUS
<1>1. PICK g \in [Nat -> Nat] : /\ g[0] = 0
                                /\ \A k \in 0 .. (n - 1) : g[k + 1] = g[k] + s[k + 1]
                                /\ SumOf(s) = g[n]
  BY <1>0, RunningSums
<1>. DEFINE S == {k \in Nat : k <= n => IsFiniteSet(Ones(k)) /\ g[k] = Cardinality(Ones(k))}
<1>2. 0 \in S
  <2>1. Ones(0) = {}
    OBVIOUS
  <2>. HIDE DEF Ones
  <2>. QED  BY <1>1, <2>1, FS_EmptySet
<1>3. ASSUME NEW k \in S PROVE k + 1 \in S
  <2>. SUFFICES ASSUME k + 1 <= n PROVE IsFiniteSet(Ones(k + 1)) /\ g[k + 1] = Cardinality(Ones(k + 1))
    OBVIOUS
  <2>1. k \in 0 .. (n - 1) /\ k + 1 \in 1 .. n /\ k <= n /\ k \in Nat
    BY <1>0
  <2>2. g[k + 1] = g[k] + s[k + 1] /\ g[k] \in Nat /\ s[k + 1] \in {0, 1}
    BY <1>0, <1>1, <2>1
  <2>3. IsFiniteSet(Ones(k)) /\ g[k] = Cardinality(Ones(k))
    BY <2>1
  <2>z. 1 .. (k + 1) = (1 .. k) \cup {k + 1}
    BY <2>1, UpTo, Zenon
  <2>y. k + 1 \notin 1 .. k
    BY <2>1, UpTo, Zenon
  <2>4. CASE s[k + 1] = 0
    <3>1. Ones(k + 1) = Ones(k)
      <4>1. s[k + 1] # 1
        BY <2>4
      <4>. QED  BY <2>z, <4>1, Zenon
    <3>. HIDE DEF Ones
    <3>. QED  BY <2>2, <2>3, <2>4, <3>1
  <2>5. CASE s[k + 1] = 1
    <3>1. Ones(k + 1) = Ones(k) \cup {k + 1} /\ k + 1 \notin Ones(k)
      <4>1. s[k + 1] = 1
        BY <2>5
      <4>. QED  BY <2>z, <2>y, <4>1, Zenon
    <3>. HIDE DEF Ones
    <3>2. /\ IsFiniteSet(Ones(k) \cup {k + 1})
          /\ Cardinality(Ones(k) \cup {k + 1}) = Cardinality(Ones(k)) + 1
      BY <2>3, <3>1, FS_AddElement
    <3>. QED  BY <2>2, <2>3, <2>5, <3>1, <3>2
  <2>. QED  BY <2>2, <2>4, <2>5
<1>4. S = Nat
  <2>1. S \in SUBSET Nat
    OBVIOUS
  <2>. HIDE DEF S
  <2>. QED  BY <1>2, <1>3, <2>1, NatInd
<1>5. g[n] = Cardinality(Ones(n))
  <2>1. n \in S
    <3>. HIDE DEF S
    <3>. QED  BY <1>0, <1>4
  <2>2. n <= n
    BY <1>0
  <2>. HIDE DEF Ones, n
  <2>. QED  BY <2>1, <2>2
<1>. QED  BY <1>1, <1>5

\* The quotient and the rest of a division.
LEMMA DivMod ==
  ASSUME NEW a \in Nat, NEW b \in Nat, b > 0, NEW q, NEW r, q = a \div b, r = a % b
  PROVE  /\ q \in Nat /\ r \in Nat /\ r < b
         /\ a = b * q + r
<1>1. a \div b \in Int /\ a % b \in 0 .. b - 1
  OBVIOUS
<1>2. a \div b >= 0
  OBVIOUS
<1>3. q \in Nat /\ r \in Nat /\ r < b
  BY <1>1, <1>2
<1>4. a = b * q + r
  BY <1>3
<1>. QED  BY <1>3, <1>4

\* Nothing divided is nothing.
LEMMA ZeroDiv ==
  ASSUME NEW b \in Nat, b > 0
  PROVE  0 \div b = 0 /\ 0 % b = 0
OBVIOUS

\* A product grows with its factor.
LEMMA TimesMono ==
  ASSUME NEW a \in Nat, NEW b \in Nat, NEW c \in Nat, b <= c
  PROVE  a * b <= a * c /\ a * b \in Nat /\ a * c \in Nat
OBVIOUS

\* A greater multiple with a rest below the divisor has no smaller quotient.
LEMMA QuotientMono ==
  ASSUME NEW s \in Nat, NEW p \in Nat, NEW q \in Nat, NEW x \in Nat, NEW y \in Nat, x < s, y < s,
         s * p + x <= s * q + y
  PROVE  p <= q
<1>. SUFFICES ASSUME q + 1 <= p PROVE FALSE
  OBVIOUS
<1>1. s * (q + 1) <= s * p /\ s * p \in Nat /\ s * q \in Nat
  BY TimesMono
<1>2. s * (q + 1) = s * q + s
  OBVIOUS
<1>. DEFINE a == s * p
            b == s * q
<1>3. b + s <= a /\ a + x <= b + y /\ a \in Nat /\ b \in Nat
  BY <1>1, <1>2
<1>. HIDE DEF a, b
<1>. QED  BY <1>3

\* The quotas of two weights, in wholes and rests, are ordered as the weights.
LEMMA QuotaOrder ==
  ASSUME NEW t \in Nat, NEW u \in Nat, NEW v \in Nat, NEW W \in Nat, NEW p \in Nat, NEW q \in Nat,
         NEW x \in Nat, NEW y \in Nat,
         t > 0, u > v, x < W, y < W, t * u = W * p + x, t * v = W * q + y
  PROVE  q <= p /\ (q = p => y < x)
<1>1. v + 1 \in Nat /\ v + 1 <= u
  OBVIOUS
<1>2. t * (v + 1) <= t * u /\ t * u \in Nat
  BY <1>1, TimesMono
<1>3. t * (v + 1) = t * v + t /\ t * v \in Nat
  OBVIOUS
<1>. DEFINE a == t * u
            b == t * v
            c == W * p
            e == W * q
<1>4. b + t <= a /\ a \in Nat /\ b \in Nat /\ a = c + x /\ b = e + y
  BY <1>2, <1>3
<1>5. c \in Nat /\ e \in Nat /\ (q = p => c = e)
  OBVIOUS
<1>6. e + y < c + x /\ (c = e => y < x)
  <2>. HIDE DEF a, b, c, e
  <2>. QED  BY <1>4, <1>5
<1>7. W * q + y <= W * p + x
  <2>1. e + y <= c + x
    <3>. HIDE DEF a, b, c, e
    <3>. QED  BY <1>5, <1>6
  <2>. QED  BY <2>1
<1>8. q <= p
  BY <1>7, QuotientMono
<1>. HIDE DEF c, e
<1>. QED  BY <1>5, <1>6, <1>8

\* Division is monotone.
LEMMA DivMono ==
  ASSUME NEW a \in Nat, NEW b \in Nat, NEW s \in Nat, s > 0, a <= b
  PROVE  a \div s <= b \div s
<1>. DEFINE p == a \div s
            q == b \div s
            x == a % s
            y == b % s
<1>1. p = a \div s /\ q = b \div s /\ x = a % s /\ y = b % s
  OBVIOUS
<1>. HIDE DEF p, q, x, y
<1>2. p \in Nat /\ x \in Nat /\ x < s /\ a = s * p + x
  BY <1>1, DivMod
<1>3. q \in Nat /\ y \in Nat /\ y < s /\ b = s * q + y
  BY <1>1, DivMod
<1>4. s * p + x <= s * q + y
  BY <1>2, <1>3
<1>5. p <= q
  BY <1>2, <1>3, <1>4, QuotientMono
<1>. QED  BY <1>1, <1>5

\* The columns of S that come before i when those with the largest r come first.
Rank(r, S, i) == {j \in S : r[j] > r[i] \/ (r[j] = r[i] /\ j < i)}

\* One column comes last.
LEMMA LastInOrder ==
  ASSUME NEW N \in Nat, NEW r \in [1 .. N -> Nat], NEW S \in SUBSET (1 .. N), S # {}
  PROVE  \E m \in S : /\ Rank(r, S, m) = S \ {m}
                      /\ \A i \in S : m \notin Rank(r, S, i)
<1>. DEFINE V == {r[i] : i \in S}
<1>1. V \in SUBSET Nat /\ V # {}
  OBVIOUS
<1>2. Min(V) \in V /\ \A y \in V : Min(V) <= y
  <2>. HIDE DEF V
  <2>. QED  BY <1>1, MinInSet
<1>. DEFINE low == Min(V)
            C == {i \in S : r[i] = low}
<1>3. low \in Nat /\ (\A i \in S : low <= r[i]) /\ \E i \in S : r[i] = low
  BY <1>1, <1>2
<1>. HIDE DEF low, V
<1>4. C \in SUBSET (0 .. N) /\ C # {}
  <2>1. \A i \in 1 .. N : i \in 0 .. N
    OBVIOUS
  <2>2. C # {}
    BY <1>3
  <2>. QED  BY <2>1, <2>2
<1>5. Max(C) \in C /\ \A y \in C : Max(C) >= y
  <2>. HIDE DEF C
  <2>. QED  BY <1>4, MaxInSet
<1>. DEFINE m == Max(C)
<1>6. m \in S /\ r[m] = low /\ \A i \in S : r[i] = low => m >= i
  BY <1>5
<1>. HIDE DEF m, C
<1>7. ASSUME NEW i \in S PROVE r[i] \in Nat /\ i \in Nat /\ m \in Nat
  BY <1>6
<1>8. ASSUME NEW i \in S, i # m PROVE i \in Rank(r, S, m)
  <2>1. CASE r[i] = low
    BY <1>6, <1>7, <1>8, <2>1 DEF Rank
  <2>2. CASE r[i] # low
    BY <1>3, <1>6, <1>7, <2>2 DEF Rank
  <2>. QED  BY <2>1, <2>2
<1>9. ASSUME NEW i \in S PROVE m \notin Rank(r, S, i)
  BY <1>3, <1>6, <1>7 DEF Rank
<1>10. Rank(r, S, m) = S \ {m}
  BY <1>6, <1>8, <1>9 DEF Rank
<1>. QED  BY <1>6, <1>9, <1>10

\* Exactly k columns have fewer than k before them.
LEMMA RankCount ==
  ASSUME NEW N \in Nat, NEW r \in [1 .. N -> Nat]
  PROVE  \A n \in Nat : \A S \in SUBSET (1 .. N) : Cardinality(S) = n =>
           \A k \in 0 .. n : Cardinality({i \in S : Cardinality(Rank(r, S, i)) < k}) = k
<1>. DEFINE First(S, k) == {i \in S : Cardinality(Rank(r, S, i)) < k}
            Good(n) == \A S \in SUBSET (1 .. N) : Cardinality(S) = n =>
                         \A k \in 0 .. n : Cardinality(First(S, k)) = k
            T == {n \in Nat : Good(n)}
<1>0. ASSUME NEW S \in SUBSET (1 .. N) PROVE IsFiniteSet(S)
  <2>1. IsFiniteSet(1 .. N)
    BY FS_Interval
  <2>. QED  BY <2>1, FS_Subset
<1>1. 0 \in T
  <2>1. ASSUME NEW S \in SUBSET (1 .. N), Cardinality(S) = 0, NEW k \in 0 .. 0
        PROVE  Cardinality(First(S, k)) = k
    <3>1. S = {} /\ k = 0
      BY <1>0, <2>1, FS_EmptySet
    <3>2. First(S, k) = {}
      BY <3>1
    <3>. HIDE DEF First
    <3>. QED  BY <3>1, <3>2, FS_EmptySet
  <2>. HIDE DEF First
  <2>. QED  BY <2>1
<1>2. ASSUME NEW n \in T PROVE n + 1 \in T
  <2>0. n \in Nat /\ Good(n)
    OBVIOUS
  <2>1. ASSUME NEW S \in SUBSET (1 .. N), Cardinality(S) = n + 1, NEW k \in 0 .. (n + 1)
        PROVE  Cardinality(First(S, k)) = k
    <3>1. S # {} /\ IsFiniteSet(S)
      BY <1>0, <2>0, <2>1, FS_EmptySet
    <3>2. PICK m \in S : /\ Rank(r, S, m) = S \ {m}
                         /\ \A i \in S : m \notin Rank(r, S, i)
      BY <3>1, LastInOrder
    <3>. DEFINE U == S \ {m}
    <3>3. U \in SUBSET (1 .. N) /\ IsFiniteSet(U) /\ Cardinality(U) = n
      <4>1. Cardinality(S \ {m}) = Cardinality(S) - 1 /\ IsFiniteSet(S \ {m})
        BY <3>1, <3>2, FS_RemoveElement
      <4>. QED  BY <2>0, <2>1, <4>1
    <3>4. ASSUME NEW i \in U PROVE Rank(r, U, i) = Rank(r, S, i)
      <4>1. i \in S /\ m \notin Rank(r, S, i)
        BY <3>2
      <4>2. Rank(r, U, i) = Rank(r, S, i) \ {m}
        BY DEF Rank
      <4>. QED  BY <4>1, <4>2
    <3>5. Cardinality(Rank(r, S, m)) = n
      BY <3>2, <3>3
    <3>6. CASE k <= n
      <4>1. ~ (n < k) /\ k \in 0 .. n
        BY <2>0, <2>1, <3>6
      <4>2. First(S, k) = First(U, k)
        <5>1. ASSUME NEW i \in First(S, k) PROVE i \in First(U, k)
          BY <3>4, <3>5, <4>1
        <5>2. ASSUME NEW i \in First(U, k) PROVE i \in First(S, k)
          BY <3>4
        <5>. QED  BY <5>1, <5>2
      <4>. HIDE DEF First, U
      <4>. QED  BY <2>0, <3>3, <4>1, <4>2
    <3>7. CASE ~ (k <= n)
      <4>1. k = n + 1
        BY <2>0, <2>1, <3>7
      <4>2. ASSUME NEW i \in S PROVE Cardinality(Rank(r, S, i)) < k
        <5>1. CASE i = m
          BY <2>0, <3>5, <4>1, <5>1
        <5>2. CASE i # m
          <6>1. Rank(r, U, i) = Rank(r, S, i) /\ Rank(r, U, i) \in SUBSET U
            BY <3>4, <5>2 DEF Rank
          <6>. HIDE DEF U
          <6>2. /\ IsFiniteSet(Rank(r, U, i))
                /\ Cardinality(Rank(r, U, i)) <= Cardinality(U)
            BY <3>3, <6>1, FS_Subset
          <6>3. Cardinality(Rank(r, U, i)) \in Nat
            BY <6>2, FS_CardinalityType
          <6>. QED  BY <2>0, <3>3, <4>1, <6>1, <6>2, <6>3
        <5>. QED  BY <5>1, <5>2
      <4>3. First(S, k) = S
        BY <4>2
      <4>. HIDE DEF First
      <4>. QED  BY <2>1, <4>1, <4>3
    <3>. QED  BY <3>6, <3>7
  <2>. HIDE DEF First
  <2>2. Good(n + 1)
    BY <2>1
  <2>. QED  BY <2>0, <2>2
<1>3. T = Nat
  <2>1. T \in SUBSET Nat
    OBVIOUS
  <2>. HIDE DEF T
  <2>. QED  BY <1>1, <1>2, <2>1, NatInd
<1>. QED  BY <1>3

\* What is split, by column: the weights, the floors of the quotas, what they
\* lose, and the shares.
Weights(d) == [i \in DOMAIN d |-> d[i].weight]
Bases(d, t) == [i \in DOMAIN d |-> base_mb(d, t, i)]
Rems(d, t) == [i \in DOMAIN d |-> rem_num(d, t, i)]
Extras(d, t) == [i \in DOMAIN d |-> Extra(d, t, i)]
Shares(d, t) == [i \in DOMAIN d |-> base_mb(d, t, i) + Extra(d, t, i)]
Weighty(d) == {i \in DOMAIN d : d[i].weight > 0}

\* The column definitions that allocate_cache_mb is given.
ColumnList(d) == d \in Seq([weight : Nat, shards : Nat])

\* The floors and what they lose make up the quotas.
LEMMA Quotas ==
  ASSUME NEW d, ColumnList(d), NEW t \in Nat, ~NoCache(d, t)
  PROVE  LET W == sum_positive_weights(d)
         IN  /\ W \in Nat /\ W > 0 /\ t > 0
             /\ \A i \in 1 .. Len(d) :
                  /\ d[i].weight \in Nat /\ t * d[i].weight \in Nat
                  /\ base_mb(d, t, i) \in Nat /\ rem_num(d, t, i) \in Nat /\ rem_num(d, t, i) < W
                  /\ t * d[i].weight = W * base_mb(d, t, i) + rem_num(d, t, i)
                  /\ d[i].weight = 0 => base_mb(d, t, i) = 0 /\ rem_num(d, t, i) = 0
<1>. DEFINE W == sum_positive_weights(d)
            N == Len(d)
<1>1. N \in Nat /\ DOMAIN d = 1 .. N /\ \A i \in 1 .. N : d[i].weight \in Nat
  <2>1. N \in Nat /\ DOMAIN d = 1 .. N
    BY DEF ColumnList
  <2>2. \A i \in 1 .. N : d[i] \in [weight : Nat, shards : Nat]
    BY <2>1, ElementOfSeq DEF ColumnList
  <2>. QED  BY <2>1, <2>2
<1>2. W = SumOf(Weights(d)) /\ Weights(d) \in Seq(Nat)
  <2>1. Weights(d) \in [1 .. N -> Nat]
    BY <1>1 DEF Weights
  <2>2. Weights(d) \in Seq(Nat)
    BY <1>1, <2>1
  <2>. QED  BY <2>2 DEF sum_positive_weights, Weights, Cols
<1>3. W \in Nat /\ W # 0 /\ t # 0
  <2>1. SumOf(Weights(d)) \in Nat
    <3>1. PICK g \in [Nat -> Nat] : SumOf(Weights(d)) = g[Len(Weights(d))]
      BY <1>2, RunningSums
    <3>. QED  BY <1>2, <3>1
  <2>. QED  BY <1>2, <2>1 DEF NoCache
<1>. HIDE DEF N
<1>4. ASSUME NEW i \in 1 .. N
      PROVE  /\ d[i].weight \in Nat /\ t * d[i].weight \in Nat
             /\ base_mb(d, t, i) \in Nat /\ rem_num(d, t, i) \in Nat /\ rem_num(d, t, i) < W
             /\ t * d[i].weight = W * base_mb(d, t, i) + rem_num(d, t, i)
             /\ d[i].weight = 0 => base_mb(d, t, i) = 0 /\ rem_num(d, t, i) = 0
  <2>. DEFINE a == t * d[i].weight
  <2>1. d[i].weight \in Nat
    BY <1>1
  <2>2. a \in Nat /\ (d[i].weight = 0 => a = 0)
    BY <2>1
  <2>3. base_mb(d, t, i) = a \div W /\ rem_num(d, t, i) = a % W
    BY DEF base_mb, rem_num
  <2>4. a = t * d[i].weight
    OBVIOUS
  <2>. HIDE DEF a, W
  <2>. DEFINE q == base_mb(d, t, i)
              r == rem_num(d, t, i)
  <2>q. q = a \div W /\ r = a % W
    BY <2>3
  <2>. HIDE DEF q, r
  <2>w. W \in Nat /\ W > 0
    BY <1>3
  <2>5. q \in Nat /\ r \in Nat /\ r < W /\ a = W * q + r
    <3>1. a \div W \in Int /\ a % W \in 0 .. W - 1 /\ a \div W >= 0
      BY <2>2, <2>w
    <3>2. q \in Nat /\ r \in Nat /\ r < W
      BY <2>q, <2>w, <3>1
    <3>3. a = W * q + r
      BY <2>2, <2>q, <2>w, <3>2
    <3>. QED  BY <3>2, <3>3
  <2>6. a = 0 => q = 0 /\ r = 0
    BY <2>q, <2>w, ZeroDiv
  <2>7. /\ d[i].weight \in Nat /\ a \in Nat /\ q \in Nat /\ r \in Nat /\ r < W
        /\ a = W * q + r
        /\ d[i].weight = 0 => q = 0 /\ r = 0
    BY <2>1, <2>2, <2>5, <2>6
  <2>. QED  BY <2>7 DEF a, q, r
<1>. QED  BY <1>3, <1>4 DEF N

\* A number of wholes that make up less than one per part is at most the parts.
LEMMA WholesBound ==
  ASSUME NEW W \in Nat, W > 0, NEW t \in Nat, NEW B \in Nat, NEW P \in Nat, NEW x \in Nat,
         t * W = W * B + x, x <= (W - 1) * P
  PROVE  t - B \in 0 .. P
<1>1. t * W = W * t /\ W * B \in Nat /\ W * t \in Nat /\ W * P \in Nat
  BY TimesMono
<1>2. (W - 1) * P = W * P - P
  OBVIOUS
<1>3. B <= t
  <2>. SUFFICES ASSUME t + 1 <= B PROVE FALSE
    OBVIOUS
  <2>1. W * (t + 1) <= W * B
    BY TimesMono
  <2>2. W * (t + 1) = W * t + W
    OBVIOUS
  <2>. DEFINE a == W * t
              b == W * B
  <2>3. a + W <= b /\ a = b + x /\ a \in Nat /\ b \in Nat
    BY <1>1, <2>1, <2>2
  <2>. HIDE DEF a, b
  <2>. QED  BY <2>3
<1>4. t <= B + P
  <2>. SUFFICES ASSUME B + P + 1 <= t PROVE FALSE
    OBVIOUS
  <2>1. W * (B + P + 1) <= W * t
    BY TimesMono
  <2>2. W * (B + P + 1) = W * B + W * P + W
    OBVIOUS
  <2>. DEFINE a == W * t
              b == W * B
              c == W * P
  <2>3. b + c + W <= a /\ a = b + x /\ x <= c - P /\ a \in Nat /\ b \in Nat /\ c \in Nat
    BY <1>1, <1>2, <2>1, <2>2
  <2>. HIDE DEF a, b, c
  <2>. QED  BY <2>3
<1>. QED  BY <1>3, <1>4

\* There are no more megabytes left than columns with a weight.
LEMMA RemainderBound ==
  ASSUME NEW d, ColumnList(d), NEW t \in Nat, ~NoCache(d, t)
  PROVE  /\ remainder(d, t) \in 0 .. Cardinality(Weighty(d))
         /\ SumOf(Bases(d, t)) \in Nat
<1>. DEFINE W == sum_positive_weights(d)
            N == Len(d)
            tw == [i \in 1 .. N |-> t * d[i].weight]
            wb == [i \in 1 .. N |-> W * base_mb(d, t, i)]
            one == [i \in 1 .. N |-> IF d[i].weight > 0 THEN 1 ELSE 0]
            most == [i \in 1 .. N |-> (W - 1) * one[i]]
<1>0. N \in Nat /\ DOMAIN d = 1 .. N
  BY DEF ColumnList
<1>1. /\ W \in Nat /\ W > 0 /\ W - 1 \in Nat
      /\ \A i \in 1 .. N :
           /\ d[i].weight \in Nat /\ t * d[i].weight \in Nat
           /\ base_mb(d, t, i) \in Nat /\ rem_num(d, t, i) \in Nat /\ rem_num(d, t, i) < W
           /\ t * d[i].weight = W * base_mb(d, t, i) + rem_num(d, t, i)
           /\ d[i].weight = 0 => base_mb(d, t, i) = 0 /\ rem_num(d, t, i) = 0
  <2>1. W \in Nat /\ W > 0
    BY Quotas
  <2>2. W - 1 \in Nat
    <3>. HIDE DEF W
    <3>. QED  BY <2>1
  <2>. QED  BY <2>1, <2>2, Quotas
<1>2. W = SumOf(Weights(d))
  BY DEF sum_positive_weights, Weights, Cols
<1>. HIDE DEF W, N
<1>3. /\ Weights(d) \in [1 .. N -> Nat] /\ Bases(d, t) \in [1 .. N -> Nat]
      /\ Rems(d, t) \in [1 .. N -> Nat] /\ tw \in [1 .. N -> Nat]
  BY <1>0, <1>1 DEF Weights, Bases, Rems
<1>4. wb \in [1 .. N -> Nat] /\ one \in [1 .. N -> {0, 1}] /\ most \in [1 .. N -> Nat]
  <2>1. \A i \in 1 .. N : W * base_mb(d, t, i) \in Nat
    BY <1>1
  <2>2. one \in [1 .. N -> {0, 1}]
    OBVIOUS
  <2>3. ASSUME NEW i \in 1 .. N PROVE (W - 1) * one[i] \in Nat
    <3>1. one[i] \in Nat
      <4>. HIDE DEF one
      <4>. QED  BY <2>2
    <3>. DEFINE v == W - 1
                x == one[i]
    <3>2. v \in Nat /\ x \in Nat
      BY <1>1, <3>1
    <3>. HIDE DEF one, v, x
    <3>3. v * x \in Nat
      BY <3>2
    <3>. QED  BY <3>3 DEF v, x
  <2>. HIDE DEF one
  <2>. QED  BY <2>1, <2>2, <2>3
<1>5. /\ Weights(d) \in Seq(Nat) /\ Bases(d, t) \in Seq(Nat) /\ Rems(d, t) \in Seq(Nat)
      /\ tw \in Seq(Nat) /\ wb \in Seq(Nat) /\ one \in Seq({0, 1}) /\ one \in Seq(Nat) /\ most \in Seq(Nat)
      /\ Len(Weights(d)) = N /\ Len(Bases(d, t)) = N /\ Len(Rems(d, t)) = N
      /\ Len(tw) = N /\ Len(wb) = N /\ Len(one) = N /\ Len(most) = N
  <2>1. \A f \in [1 .. N -> Nat] : f \in Seq(Nat) /\ Len(f) = N
    BY <1>0
  <2>2. \A f \in [1 .. N -> {0, 1}] : f \in Seq({0, 1}) /\ f \in Seq(Nat) /\ Len(f) = N
    BY <1>0
  <2>. HIDE DEF tw, wb, one, most
  <2>. QED  BY <1>3, <1>4, <2>1, <2>2
<1>6. SumOf(tw) = t * W
  <2>1. \A i \in 1 .. N : tw[i] = t * Weights(d)[i]
    BY <1>0 DEF Weights
  <2>. HIDE DEF tw
  <2>2. \A i \in 1 .. Len(Weights(d)) : tw[i] = t * Weights(d)[i]
    BY <1>5, <2>1
  <2>3. SumOf(tw) = t * SumOf(Weights(d))
    <3>1. Weights(d) \in Seq(Nat) /\ tw \in Seq(Nat) /\ Len(tw) = Len(Weights(d))
      BY <1>5
    <3>. QED  BY <2>2, <3>1, SumTimes
  <2>. QED  BY <1>2, <2>3
<1>7. SumOf(wb) = W * SumOf(Bases(d, t)) /\ SumOf(Bases(d, t)) \in Nat
  <2>1. \A i \in 1 .. N : wb[i] = W * Bases(d, t)[i]
    BY <1>0 DEF Bases
  <2>. HIDE DEF wb
  <2>2. \A i \in 1 .. Len(Bases(d, t)) : wb[i] = W * Bases(d, t)[i]
    BY <1>5, <2>1
  <2>3. Bases(d, t) \in Seq(Nat) /\ wb \in Seq(Nat) /\ Len(wb) = Len(Bases(d, t)) /\ W \in Nat
    BY <1>1, <1>5
  <2>. QED  BY <2>2, <2>3, SumTimes
<1>8. SumOf(tw) = SumOf(wb) + SumOf(Rems(d, t)) /\ SumOf(Rems(d, t)) \in Nat
  <2>1. ASSUME NEW i \in 1 .. N PROVE tw[i] = wb[i] + Rems(d, t)[i]
    <3>1. tw[i] = t * d[i].weight /\ wb[i] = W * base_mb(d, t, i) /\ Rems(d, t)[i] = rem_num(d, t, i)
      BY <1>0 DEF Rems
    <3>. HIDE DEF tw, wb
    <3>. QED  BY <1>1, <3>1, Zenon
  <2>. HIDE DEF tw, wb
  <2>2. \A i \in 1 .. Len(wb) : tw[i] = wb[i] + Rems(d, t)[i]
    BY <1>5, <2>1
  <2>3. /\ wb \in Seq(Nat) /\ tw \in Seq(Nat) /\ Rems(d, t) \in Seq(Nat)
        /\ Len(wb) = Len(Rems(d, t)) /\ Len(tw) = Len(wb)
    BY <1>5
  <2>. QED  BY <2>2, <2>3, SumPlus
<1>9. SumOf(most) = (W - 1) * SumOf(one) /\ SumOf(one) \in Nat
  <2>1. \A i \in 1 .. N : most[i] = (W - 1) * one[i]
    OBVIOUS
  <2>. DEFINE v == W - 1
  <2>0. v \in Nat /\ \A i \in 1 .. N : most[i] = v * one[i]
    BY <1>1, <2>1
  <2>. HIDE DEF most, one, v
  <2>2. \A i \in 1 .. Len(one) : most[i] = v * one[i]
    BY <1>5, <2>0
  <2>3. one \in Seq(Nat) /\ most \in Seq(Nat) /\ Len(most) = Len(one) /\ v \in Nat
    BY <1>5, <2>0
  <2>4. SumOf(most) = v * SumOf(one) /\ SumOf(one) \in Nat
    BY <2>2, <2>3, SumTimes
  <2>. QED  BY <2>4 DEF v
<1>10. SumOf(one) = Cardinality(Weighty(d))
  <2>1. {i \in 1 .. N : one[i] = 1} = Weighty(d)
    BY <1>0 DEF Weighty
  <2>. HIDE DEF one
  <2>. QED  BY <1>5, <2>1, SumCounts
<1>11. SumOf(Rems(d, t)) <= SumOf(most)
  <2>1. ASSUME NEW i \in 1 .. N PROVE Rems(d, t)[i] <= most[i]
    <3>1. Rems(d, t)[i] = rem_num(d, t, i)
      BY <1>0 DEF Rems
    <3>2. CASE d[i].weight > 0
      <4>1. most[i] = (W - 1) * 1
        BY <3>2
      <4>2. most[i] = W - 1
        <5>. HIDE DEF most
        <5>. QED  BY <1>1, <4>1
      <4>. HIDE DEF most
      <4>. QED  BY <1>1, <3>1, <4>2
    <3>3. CASE ~ (d[i].weight > 0)
      <4>1. d[i].weight = 0
        BY <1>1, <3>3
      <4>2. most[i] \in Nat
        <5>. HIDE DEF most
        <5>. QED  BY <1>4
      <4>3. rem_num(d, t, i) = 0
        BY <1>1, <4>1
      <4>. HIDE DEF most
      <4>. QED  BY <3>1, <4>2, <4>3
    <3>. QED  BY <3>2, <3>3
  <2>. HIDE DEF most
  <2>. QED  BY <1>5, <2>1, SumLe
<1>. HIDE DEF tw, wb, one, most
<1>12. t - SumOf(Bases(d, t)) \in 0 .. Cardinality(Weighty(d))
  <2>. DEFINE B == SumOf(Bases(d, t))
              P == Cardinality(Weighty(d))
              x == SumOf(Rems(d, t))
  <2>1. B \in Nat /\ P \in Nat /\ x \in Nat /\ t * W = W * B + x /\ x <= (W - 1) * P
    BY <1>6, <1>7, <1>8, <1>9, <1>10, <1>11
  <2>. HIDE DEF B, P, x
  <2>2. t - B \in 0 .. P
    BY <1>1, <2>1, WholesBound
  <2>. QED  BY <2>2 DEF B, P
<1>. QED  BY <1>7, <1>12 DEF remainder, Bases, Cols

\* The floors and the extra megabytes make up the whole cache.
LEMMA SharesExact ==
  ASSUME NEW d, ColumnList(d), NEW t \in Nat, ~NoCache(d, t)
  PROVE  /\ Shares(d, t) \in Seq(Nat) /\ Len(Shares(d, t)) = Len(d)
         /\ SumOf(Shares(d, t)) = t
<1>. DEFINE N == Len(d)
            r == Rems(d, t)
            R == remainder(d, t)
            Pos == Weighty(d)
<1>0. N \in Nat /\ DOMAIN d = 1 .. N
  BY DEF ColumnList
<1>1. \A i \in 1 .. N : /\ base_mb(d, t, i) \in Nat /\ rem_num(d, t, i) \in Nat /\ d[i].weight \in Nat
  BY Quotas
<1>2. R \in 0 .. Cardinality(Pos) /\ SumOf(Bases(d, t)) \in Nat
  BY RemainderBound
<1>3. R = t - SumOf(Bases(d, t))
  BY DEF remainder, Bases, Cols
<1>4. r \in [1 .. N -> Nat] /\ Pos \in SUBSET (1 .. N)
  BY <1>0, <1>1 DEF Rems, Weighty
<1>5. ASSUME NEW i \in 1 .. N PROVE Before(d, t, i) = Rank(r, Pos, i)
  BY <1>0 DEF Before, Rank, Rems, Weighty, Cols
<1>6. \A i \in 1 .. N : Extra(d, t, i) \in {0, 1}
  BY DEF Extra
<1>7. {i \in 1 .. N : Extra(d, t, i) = 1} = {i \in Pos : Cardinality(Rank(r, Pos, i)) < R}
  <2>1. ASSUME NEW i \in 1 .. N
        PROVE  Extra(d, t, i) = 1 <=> i \in Pos /\ Cardinality(Rank(r, Pos, i)) < R
    <3>1. Before(d, t, i) = Rank(r, Pos, i)
      BY <1>5
    <3>2. i \in Pos <=> d[i].weight > 0
      BY <1>0 DEF Weighty
    <3>. HIDE DEF r, Pos
    <3>. QED  BY <3>1, <3>2 DEF Extra
  <2>. HIDE DEF r, Pos, R
  <2>. QED  BY <1>4, <2>1
<1>. HIDE DEF N, r, R, Pos
<1>8. Cardinality({i \in Pos : Cardinality(Rank(r, Pos, i)) < R}) = R
  <2>1. Cardinality(Pos) \in Nat
    <3>1. IsFiniteSet(1 .. N)
      BY <1>0, FS_Interval
    <3>2. IsFiniteSet(Pos)
      BY <1>4, <3>1, FS_Subset
    <3>. QED  BY <3>2, FS_CardinalityType
  <2>2. \A n \in Nat : \A S \in SUBSET (1 .. N) : Cardinality(S) = n =>
          \A k \in 0 .. n : Cardinality({i \in S : Cardinality(Rank(r, S, i)) < k}) = k
    BY <1>0, <1>4, RankCount
  <2>3. \A k \in 0 .. Cardinality(Pos) : Cardinality({i \in Pos : Cardinality(Rank(r, Pos, i)) < k}) = k
    BY <1>4, <2>1, <2>2, Zenon
  <2>. QED  BY <1>2, <2>3
<1>9. /\ Extras(d, t) \in [1 .. N -> {0, 1}] /\ Bases(d, t) \in [1 .. N -> Nat]
      /\ Shares(d, t) \in [1 .. N -> Nat]
  <2>1. Extras(d, t) \in [1 .. N -> {0, 1}] /\ Bases(d, t) \in [1 .. N -> Nat]
    BY <1>0, <1>1, <1>6 DEF Extras, Bases
  <2>2. \A i \in 1 .. N : base_mb(d, t, i) + Extra(d, t, i) \in Nat
    BY <1>1, <1>6
  <2>3. Shares(d, t) \in [1 .. N -> Nat]
    BY <1>0, <2>2 DEF Shares
  <2>. QED  BY <2>1, <2>3
<1>10. /\ Extras(d, t) \in Seq({0, 1}) /\ Extras(d, t) \in Seq(Nat) /\ Bases(d, t) \in Seq(Nat)
       /\ Shares(d, t) \in Seq(Nat)
       /\ Len(Extras(d, t)) = N /\ Len(Bases(d, t)) = N /\ Len(Shares(d, t)) = N
  <2>1. \A f \in [1 .. N -> Nat] : f \in Seq(Nat) /\ Len(f) = N
    BY <1>0
  <2>2. \A f \in [1 .. N -> {0, 1}] : f \in Seq({0, 1}) /\ f \in Seq(Nat) /\ Len(f) = N
    BY <1>0
  <2>. QED  BY <1>9, <2>1, <2>2
<1>11. SumOf(Extras(d, t)) = R
  <2>1. {i \in 1 .. Len(Extras(d, t)) : Extras(d, t)[i] = 1} = {i \in 1 .. N : Extra(d, t, i) = 1}
    BY <1>0, <1>10 DEF Extras
  <2>2. SumOf(Extras(d, t)) = Cardinality({i \in 1 .. Len(Extras(d, t)) : Extras(d, t)[i] = 1})
    BY <1>10, SumCounts
  <2>. QED  BY <1>7, <1>8, <2>1, <2>2
<1>12. SumOf(Shares(d, t)) = SumOf(Bases(d, t)) + SumOf(Extras(d, t))
  <2>1. \A i \in 1 .. N : Shares(d, t)[i] = Bases(d, t)[i] + Extras(d, t)[i]
    BY <1>0 DEF Shares, Bases, Extras
  <2>2. \A i \in 1 .. Len(Bases(d, t)) : Shares(d, t)[i] = Bases(d, t)[i] + Extras(d, t)[i]
    BY <1>10, <2>1
  <2>3. /\ Len(Bases(d, t)) = Len(Extras(d, t)) /\ Len(Shares(d, t)) = Len(Bases(d, t))
    BY <1>10
  <2>. QED  BY <1>10, <2>2, <2>3, SumPlus
<1>. QED  BY <1>2, <1>3, <1>10, <1>11, <1>12 DEF N

\* A greater weight has no smaller share, and weight zero none.
LEMMA SharesFair ==
  ASSUME NEW d, ColumnList(d), NEW t \in Nat, ~NoCache(d, t), NEW i \in 1 .. Len(d), NEW j \in 1 .. Len(d)
  PROVE  /\ d[i].weight = 0 => Shares(d, t)[i] = 0
         /\ d[i].weight > d[j].weight => Shares(d, t)[i] >= Shares(d, t)[j]
<1>. DEFINE W == sum_positive_weights(d)
            bi == base_mb(d, t, i)
            bj == base_mb(d, t, j)
            ri == rem_num(d, t, i)
            rj == rem_num(d, t, j)
            ei == Extra(d, t, i)
            ej == Extra(d, t, j)
<1>0. Len(d) \in Nat /\ DOMAIN d = 1 .. Len(d)
  BY DEF ColumnList
<1>1. /\ W \in Nat /\ W > 0 /\ t > 0
      /\ d[i].weight \in Nat /\ d[j].weight \in Nat
      /\ bi \in Nat /\ ri \in Nat /\ ri < W /\ t * d[i].weight = W * bi + ri
      /\ bj \in Nat /\ rj \in Nat /\ rj < W /\ t * d[j].weight = W * bj + rj
      /\ d[i].weight = 0 => bi = 0
  BY Quotas
<1>2. Shares(d, t)[i] = bi + ei /\ Shares(d, t)[j] = bj + ej
  BY <1>0 DEF Shares
<1>3. ei \in {0, 1} /\ ej \in {0, 1} /\ (d[i].weight = 0 => ei = 0)
  BY DEF Extra
<1>4. ASSUME d[i].weight > d[j].weight PROVE bi + ei >= bj + ej
  <2>2. bj <= bi /\ (bj = bi => rj < ri)
    <3>. DEFINE u == d[i].weight
                v == d[j].weight
    <3>1. u \in Nat /\ v \in Nat /\ u > v /\ t * u = W * bi + ri /\ t * v = W * bj + rj
      BY <1>1, <1>4
    <3>2. /\ W \in Nat /\ t > 0 /\ bi \in Nat /\ ri \in Nat /\ ri < W
          /\ bj \in Nat /\ rj \in Nat /\ rj < W
      BY <1>1
    <3>. HIDE DEF W, bi, bj, ri, rj, u, v
    <3>. QED  BY <3>1, <3>2, QuotaOrder
  <2>3. CASE bj < bi
    <3>. HIDE DEF W, bi, bj, ri, rj, ei, ej
    <3>. QED  BY <1>1, <1>3, <2>3
  <2>4. CASE bj = bi
    <3>1. rj < ri
      BY <2>2, <2>4
    <3>2. Before(d, t, i) \in SUBSET Before(d, t, j)
      <4>1. ASSUME NEW k \in Before(d, t, i) PROVE k \in Before(d, t, j)
        <5>1. k \in 1 .. Len(d) /\ d[k].weight > 0 /\ rem_num(d, t, k) >= ri
          <6>1. k \in 1 .. Len(d)
            BY <1>0 DEF Before, Cols
          <6>2. rem_num(d, t, k) \in Nat
            BY <6>1, Quotas
          <6>3. /\ d[k].weight > 0
                /\ rem_num(d, t, k) > rem_num(d, t, i) \/ rem_num(d, t, k) = rem_num(d, t, i)
            BY DEF Before
          <6>4. rem_num(d, t, k) > ri \/ rem_num(d, t, k) = ri
            BY <6>3
          <6>. HIDE DEF ri
          <6>. QED  BY <1>1, <6>1, <6>2, <6>3, <6>4
        <5>2. rem_num(d, t, k) \in Nat
          BY <5>1, Quotas
        <5>3. rem_num(d, t, k) > rj
          <6>. HIDE DEF ri, rj
          <6>. QED  BY <1>1, <3>1, <5>1, <5>2
        <5>. QED  BY <1>0, <5>1, <5>3 DEF Before, Cols
      <4>. QED  BY <4>1
    <3>3. Cardinality(Before(d, t, i)) <= Cardinality(Before(d, t, j))
          /\ Cardinality(Before(d, t, i)) \in Nat /\ Cardinality(Before(d, t, j)) \in Nat
      <4>1. IsFiniteSet(1 .. Len(d))
        BY <1>0, FS_Interval
      <4>2. Before(d, t, j) \in SUBSET (1 .. Len(d))
        BY <1>0 DEF Before, Cols
      <4>3. IsFiniteSet(Before(d, t, j))
        BY <4>1, <4>2, FS_Subset
      <4>4. /\ IsFiniteSet(Before(d, t, i))
            /\ Cardinality(Before(d, t, i)) <= Cardinality(Before(d, t, j))
        BY <3>2, <4>3, FS_Subset
      <4>. QED  BY <4>3, <4>4, FS_CardinalityType
    <3>4. remainder(d, t) \in Int
      <4>1. SumOf(Bases(d, t)) \in Nat
        BY RemainderBound
      <4>. QED  BY <4>1 DEF remainder, Bases, Cols
    <3>5. ej = 1 => ei = 1
      <4>. SUFFICES ASSUME ej = 1 PROVE ei = 1
        OBVIOUS
      <4>1. Cardinality(Before(d, t, j)) < remainder(d, t)
        BY DEF Extra
      <4>2. Cardinality(Before(d, t, i)) < remainder(d, t) /\ d[i].weight > 0
        <5>1. d[i].weight > 0
          <6>. DEFINE u == d[i].weight
                      v == d[j].weight
          <6>1. u \in Nat /\ v \in Nat /\ u > v
            BY <1>1, <1>4
          <6>. HIDE DEF u, v
          <6>2. u > 0
            BY <6>1
          <6>. QED  BY <6>2 DEF u
        <5>. DEFINE m == Cardinality(Before(d, t, i))
                    n == Cardinality(Before(d, t, j))
                    rest == remainder(d, t)
        <5>2. m <= n /\ m \in Nat /\ n \in Nat /\ rest \in Int /\ n < rest
          BY <3>3, <3>4, <4>1
        <5>. HIDE DEF m, n, rest
        <5>3. m < rest
          BY <5>2
        <5>. QED  BY <5>1, <5>3 DEF m, rest
      <4>. QED  BY <4>2 DEF Extra
    <3>. HIDE DEF W, bi, bj, ri, rj, ei, ej
    <3>. QED  BY <1>1, <1>3, <2>4, <3>5
  <2>. HIDE DEF bi, bj
  <2>. QED  BY <1>1, <2>2, <2>3, <2>4
<1>. HIDE DEF bi, bj, ei, ej
<1>. QED  BY <1>1, <1>2, <1>3, <1>4

\* What a rest below the divisor says of the product.
LEMMA RestBelow ==
  ASSUME NEW a \in Nat, NEW s \in Nat, NEW q \in Nat, NEW r \in Nat, r < s, a = s * q + r
  PROVE  q * s \in Nat /\ q * s <= a /\ a + 1 <= q * s + s
<1>. DEFINE m == q * s
<1>1. m \in Nat /\ a = m + r
  OBVIOUS
<1>. HIDE DEF m
<1>2. m <= a /\ a + 1 <= m + s
  BY <1>1
<1>. QED  BY <1>1, <1>2 DEF m

\* What the split of a share among its shards loses.
LEMMA PerShard ==
  ASSUME NEW a \in Nat, NEW s \in Nat, s > 0, NEW q, q = a \div s
  PROVE  q \in Nat /\ q * s \in Nat /\ q * s <= a /\ a + 1 <= q * s + s
<1>. DEFINE r == a % s
<1>1. r = a % s
  OBVIOUS
<1>. HIDE DEF r
<1>2. q \in Nat /\ r \in Nat /\ r < s /\ a = s * q + r
  BY <1>1, DivMod
<1>. QED  BY ONLY <1>2, a \in Nat, s \in Nat, RestBelow

\* allocate_cache_mb keeps to the cache and loses less than a megabyte per shard.
LEMMA Allocated ==
  ASSUME NEW d, ColumnList(d), NEW t \in Nat, ~NoCache(d, t), \A i \in DOMAIN d : d[i].shards # 0
  PROVE  LET mb == allocate_cache_mb(d, t)
             used == SumOf([i \in DOMAIN d |-> mb[i] * d[i].shards])
             shards == SumOf([i \in DOMAIN d |-> d[i].shards])
         IN  /\ used <= t
             /\ t - used <= shards - Len(d)
             /\ \A i, j \in DOMAIN d :
                  /\ d[i].weight = 0 => mb[i] = 0
                  /\ d[i].shards = d[j].shards /\ d[i].weight > d[j].weight => mb[i] >= mb[j]
<1>. DEFINE N == Len(d)
            mb == allocate_cache_mb(d, t)
            sh == Shares(d, t)
            u == [i \in DOMAIN d |-> mb[i] * d[i].shards]
            s == [i \in DOMAIN d |-> d[i].shards]
            one == [i \in 1 .. N |-> 1]
            sh1 == [i \in 1 .. N |-> sh[i] + 1]
            us == [i \in 1 .. N |-> u[i] + s[i]]
<1>0. N \in Nat /\ DOMAIN d = 1 .. N /\ \A i \in 1 .. N : d[i].shards \in Nat /\ d[i].shards > 0
  <2>1. N \in Nat /\ DOMAIN d = 1 .. N
    BY DEF ColumnList
  <2>2. \A i \in 1 .. N : d[i] \in [weight : Nat, shards : Nat]
    BY <2>1, ElementOfSeq DEF ColumnList
  <2>3. ASSUME NEW i \in 1 .. N PROVE d[i].shards \in Nat /\ d[i].shards > 0
    <3>. DEFINE x == d[i].shards
    <3>1. x \in Nat /\ x # 0
      BY <2>1, <2>2
    <3>. HIDE DEF x
    <3>2. x > 0
      BY <3>1
    <3>. QED  BY <3>1, <3>2 DEF x
  <2>. QED  BY <2>1, <2>3
<1>1. sh \in Seq(Nat) /\ Len(sh) = N /\ SumOf(sh) = t
  BY SharesExact
<1>2. \A i \in 1 .. N : sh[i] \in Nat
  <2>. HIDE DEF sh, N
  <2>. QED  BY <1>1, ElementOfSeq
<1>3. \A i \in 1 .. N : mb[i] = sh[i] \div d[i].shards
  BY <1>0 DEF allocate_cache_mb, Cols, Shares
<1>4. /\ \A i \in 1 .. N : u[i] = mb[i] * d[i].shards /\ s[i] = d[i].shards
      /\ DOMAIN u = 1 .. N /\ DOMAIN s = 1 .. N
  BY <1>0
<1>5. ASSUME NEW i \in 1 .. N
      PROVE  mb[i] \in Nat /\ u[i] \in Nat /\ u[i] <= sh[i] /\ sh[i] + 1 <= u[i] + s[i] /\ s[i] \in Nat
  <2>. DEFINE a == sh[i]
              x == d[i].shards
              q == mb[i]
  <2>1. a \in Nat /\ x \in Nat /\ x > 0 /\ q = a \div x /\ u[i] = q * x /\ s[i] = x
    BY <1>0, <1>2, <1>3, <1>4
  <2>. HIDE DEF a, x, q, u, s
  <2>2. q \in Nat /\ q * x \in Nat /\ q * x <= a /\ a + 1 <= q * x + x
    BY <2>1, PerShard
  <2>. QED  BY <2>1, <2>2 DEF a, q
<1>6. u = [i \in 1 .. N |-> u[i]] /\ s = [i \in 1 .. N |-> s[i]]
  BY <1>4
<1>. HIDE DEF N, u, s, mb, sh
<1>7. /\ u \in [1 .. N -> Nat] /\ s \in [1 .. N -> Nat]
  BY <1>5, <1>6
<1>8. /\ sh1 \in [1 .. N -> Nat] /\ us \in [1 .. N -> Nat] /\ one \in [1 .. N -> {0, 1}]
  <2>1. \A i \in 1 .. N : sh[i] + 1 \in Nat /\ u[i] + s[i] \in Nat
    BY <1>2, <1>5
  <2>. QED  BY <2>1
<1>9. /\ \A i \in 1 .. N : sh1[i] = sh[i] + one[i] /\ us[i] = u[i] + s[i] /\ sh1[i] <= us[i]
      /\ {i \in 1 .. N : one[i] = 1} = 1 .. N
  <2>1. \A i \in 1 .. N : sh1[i] = sh[i] + 1 /\ us[i] = u[i] + s[i] /\ one[i] = 1
    OBVIOUS
  <2>. HIDE DEF sh1, us, one
  <2>. QED  BY <1>5, <2>1
<1>. HIDE DEF sh1, us, one
<1>10. /\ u \in Seq(Nat) /\ s \in Seq(Nat) /\ sh1 \in Seq(Nat) /\ us \in Seq(Nat)
       /\ one \in Seq({0, 1}) /\ one \in Seq(Nat)
       /\ Len(u) = N /\ Len(s) = N /\ Len(sh1) = N /\ Len(us) = N /\ Len(one) = N
  <2>1. \A f \in [1 .. N -> Nat] : f \in Seq(Nat) /\ Len(f) = N
    BY <1>0
  <2>2. \A f \in [1 .. N -> {0, 1}] : f \in Seq({0, 1}) /\ f \in Seq(Nat) /\ Len(f) = N
    BY <1>0
  <2>. QED  BY <1>7, <1>8, <2>1, <2>2
<1>11. SumOf(u) <= t /\ SumOf(u) \in Nat
  <2>1. Len(u) = Len(sh) /\ \A i \in 1 .. Len(u) : u[i] <= sh[i]
    BY <1>1, <1>5, <1>10
  <2>2. SumOf(u) \in Nat /\ SumOf(u) <= SumOf(sh)
    BY <1>1, <1>10, <2>1, SumLe
  <2>. QED  BY <1>1, <2>2
<1>12. SumOf(one) = N
  <2>1. SumOf(one) = Cardinality({i \in 1 .. Len(one) : one[i] = 1})
    BY <1>10, SumCounts
  <2>2. Cardinality(1 .. N) = N
    <3>1. 1 \in Int /\ N \in Int
      BY <1>0
    <3>2. Cardinality(1 .. N) = IF 1 > N THEN 0 ELSE N - 1 + 1
      BY <3>1, FS_Interval
    <3>. QED  BY <1>0, <3>2
  <2>. QED  BY <1>9, <1>10, <2>1, <2>2
<1>13. SumOf(sh1) = t + N
  <2>1. /\ Len(sh) = Len(one) /\ Len(sh1) = Len(sh)
        /\ \A i \in 1 .. Len(sh) : sh1[i] = sh[i] + one[i]
    BY <1>1, <1>9, <1>10
  <2>2. SumOf(sh1) = SumOf(sh) + SumOf(one)
    BY <1>1, <1>10, <2>1, SumPlus
  <2>. QED  BY <1>1, <1>12, <2>2
<1>14. SumOf(us) = SumOf(u) + SumOf(s) /\ SumOf(s) \in Nat
  <2>1. /\ Len(u) = Len(s) /\ Len(us) = Len(u)
        /\ \A i \in 1 .. Len(u) : us[i] = u[i] + s[i]
    BY <1>9, <1>10
  <2>. QED  BY <1>10, <2>1, SumPlus
<1>15. SumOf(sh1) <= SumOf(us)
  <2>1. Len(sh1) = Len(us) /\ \A i \in 1 .. Len(sh1) : sh1[i] <= us[i]
    BY <1>9, <1>10
  <2>. QED  BY <1>10, <2>1, SumLe
<1>16. t - SumOf(u) <= SumOf(s) - N
  <2>. DEFINE x == SumOf(u)
              y == SumOf(s)
  <2>1. x \in Nat /\ y \in Nat /\ t + N <= x + y
    BY <1>11, <1>13, <1>14, <1>15
  <2>. HIDE DEF x, y
  <2>2. t - x <= y - N
    BY <1>0, <2>1
  <2>. QED  BY <2>2 DEF x, y
<1>17. ASSUME NEW i \in 1 .. N, NEW j \in 1 .. N
       PROVE  /\ d[i].weight = 0 => mb[i] = 0
              /\ d[i].shards = d[j].shards /\ d[i].weight > d[j].weight => mb[i] >= mb[j]
  <2>1. /\ d[i].weight = 0 => sh[i] = 0
        /\ d[i].weight > d[j].weight => sh[i] >= sh[j]
    BY SharesFair DEF N, sh
  <2>2. d[i].weight = 0 => mb[i] = 0
    <3>. SUFFICES ASSUME d[i].weight = 0 PROVE mb[i] = 0
      OBVIOUS
    <3>1. mb[i] = 0 \div d[i].shards
      BY <1>3, <2>1
    <3>. QED  BY <1>0, <3>1, ZeroDiv
  <2>3. ASSUME d[i].shards = d[j].shards, d[i].weight > d[j].weight PROVE mb[i] >= mb[j]
    <3>. DEFINE x == d[j].shards
                a == sh[j]
                b == sh[i]
    <3>1. mb[i] = b \div x /\ mb[j] = a \div x /\ x \in Nat /\ x > 0 /\ a \in Nat /\ b \in Nat /\ b >= a
      BY <1>0, <1>2, <1>3, <2>1, <2>3
    <3>. HIDE DEF x, a, b
    <3>2. a <= b
      BY <3>1
    <3>3. a \div x <= b \div x
      BY <3>1, <3>2, DivMono
    <3>4. mb[j] <= mb[i] /\ mb[i] \in Nat /\ mb[j] \in Nat
      BY <1>5, <3>1, <3>3
    <3>. QED  BY <3>4
  <2>. QED  BY <2>2, <2>3
<1>. QED  BY <1>0, <1>11, <1>16, <1>17 DEF N, u, s, mb

\* Without a cache nothing is handed out.
LEMMA NothingAllocated ==
  ASSUME NEW d, ColumnList(d), NEW t \in Nat, NoCache(d, t)
  PROVE  LET mb == allocate_cache_mb(d, t)
             used == SumOf([i \in DOMAIN d |-> mb[i] * d[i].shards])
         IN  used <= t /\ \A i \in DOMAIN d : mb[i] = 0
<1>. DEFINE mb == allocate_cache_mb(d, t)
            u == [i \in DOMAIN d |-> mb[i] * d[i].shards]
            s == [i \in DOMAIN d |-> d[i].shards]
            N == Len(d)
<1>0. N \in Nat /\ DOMAIN d = 1 .. N /\ \A i \in 1 .. N : d[i].shards \in Nat
  <2>1. N \in Nat /\ DOMAIN d = 1 .. N
    BY DEF ColumnList
  <2>2. \A i \in 1 .. N : d[i] \in [weight : Nat, shards : Nat]
    BY <2>1, ElementOfSeq DEF ColumnList
  <2>. QED  BY <2>1, <2>2
<1>1. \A i \in 1 .. N : mb[i] = 0
  BY <1>0 DEF allocate_cache_mb, Cols
<1>2. \A i \in 1 .. N : u[i] = 0 * s[i] /\ u[i] = 0
  <2>1. ASSUME NEW i \in 1 .. N PROVE u[i] = 0 * s[i] /\ u[i] = 0
    <3>. DEFINE x == d[i].shards
    <3>1. u[i] = 0 * x /\ s[i] = x /\ x \in Nat
      BY <1>0, <1>1
    <3>. HIDE DEF x, u, s
    <3>. QED  BY <3>1
  <2>. QED  BY <2>1
<1>3. u \in [1 .. N -> Nat] /\ s \in [1 .. N -> Nat]
  <2>1. u = [i \in 1 .. N |-> u[i]] /\ s = [i \in 1 .. N |-> s[i]]
    BY <1>0
  <2>2. \A i \in 1 .. N : s[i] \in Nat
    BY <1>0
  <2>. HIDE DEF u, s
  <2>. QED  BY <1>2, <2>1, <2>2
<1>. HIDE DEF u, s, mb, N
<1>4. u \in Seq(Nat) /\ s \in Seq(Nat) /\ Len(u) = Len(s) /\ Len(s) = N
  <2>1. \A f \in [1 .. N -> Nat] : f \in Seq(Nat) /\ Len(f) = N
    BY <1>0
  <2>. QED  BY <1>3, <2>1
<1>5. SumOf(u) = 0 * SumOf(s) /\ SumOf(s) \in Nat
  <2>1. \A i \in 1 .. Len(s) : u[i] = 0 * s[i]
    BY <1>2, <1>4
  <2>. QED  BY <1>4, <2>1, SumTimes
<1>6. SumOf(u) <= t
  <2>. DEFINE y == SumOf(s)
  <2>1. SumOf(u) = 0 * y /\ y \in Nat
    BY <1>5
  <2>. HIDE DEF y
  <2>2. 0 * y = 0
    BY <2>1
  <2>. QED  BY <2>1, <2>2
<1>. QED  BY <1>0, <1>1, <1>6 DEF u, mb

\* allocate_cache_mb, for all columns, weights, numbers of shards and sizes of
\* the cache: it never hands out more than it was given, loses less than a
\* megabyte per shard, gives nothing to weight zero and no less to more weight.
THEOREM CacheSplit == Spec => []CacheWithinBudget
<1>1. TypeOK => CacheWithinBudget
  <2>. SUFFICES ASSUME TypeOK, ~allocation_panics(defs, total)
                PROVE  CacheWithinBudget
    BY DEF CacheWithinBudget
  <2>1. ColumnList(defs) /\ total \in Nat
    BY LauncherAssumption DEF TypeOK, ColumnList
  <2>2. CASE NoCache(defs, total)
    <3>1. LET mb == allocate_cache_mb(defs, total)
              used == SumOf([i \in DOMAIN defs |-> mb[i] * defs[i].shards])
          IN  used <= total /\ \A i \in DOMAIN defs : mb[i] = 0
      BY <2>1, <2>2, NothingAllocated
    <3>. QED  BY <2>2, <3>1 DEF CacheWithinBudget
  <2>3. CASE ~NoCache(defs, total)
    <3>1. \A i \in DOMAIN defs : defs[i].shards # 0
      BY <2>3 DEF allocation_panics, Cols
    <3>2. LET mb == allocate_cache_mb(defs, total)
              used == SumOf([i \in DOMAIN defs |-> mb[i] * defs[i].shards])
              shards == SumOf([i \in DOMAIN defs |-> defs[i].shards])
          IN  /\ used <= total
              /\ total - used <= shards - Len(defs)
              /\ \A i, j \in DOMAIN defs :
                   /\ defs[i].weight = 0 => mb[i] = 0
                   /\ defs[i].shards = defs[j].shards /\ defs[i].weight > defs[j].weight => mb[i] >= mb[j]
      BY <2>1, <2>3, <3>1, Allocated
    <3>. QED  BY <3>2 DEF CacheWithinBudget
  <2>. QED  BY <2>2, <2>3
<1>. QED  BY <1>1, TypeCorrect, PTL
=============================================================================
