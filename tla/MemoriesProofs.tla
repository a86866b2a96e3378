---------------------------- MODULE MemoriesProofs ----------------------------
(***************************************************************************)
(* Theorems about what Donna knows of a user: what a decision about a       *)
(* suggestion leaves, what becomes of a superseded fact, and what the       *)
(* projected profile shows.                                                 *)
(***************************************************************************)
EXTENDS Memories, SequenceTheorems, FiniteSetTheorems, WellFoundedInduction, TLAPS

-----------------------------------------------------------------------------
(* The inductive invariant *)

TextOrNone == Text \cup {NoText}
FactRow == [on : BOOLEAN, status : {"active", "superseded", "outdated", "rejected", "pending_review"},
            text : TextOrNone, sensitive : BOOLEAN, supersedes : Nat, from : Nat]
SuggestionRow == [status : {"pending", "accepted", "rejected"}, text : Text, sensitive : BOOLEAN, conflict : Nat]
Pcs == {"idle", "getFact", "set", "getSug", "close", "supersede", "deactivate", "insert",
        "list", "upsert", "existing", "candidate", "summary"}
Ops == {"none", "create", "extract", "compile", "acceptSug", "rejectSug"} \cup ItemOps \cup OldOps
Locals == [pc : Pcs, op : Ops, fact : Nat, sug : Nat, text : TextOrNone, sensitive : BOOLEAN,
           seen : SUBSET Nat, todo : Seq(Candidate), activated : BOOLEAN]
ProfileRow == [by : {"projection", "user", "compiler"}, shows : SUBSET Nat]

MemTypeOK ==
  /\ facts \in Seq(FactRow)
  /\ suggestions \in Seq(SuggestionRow)
  /\ profile \in ProfileRow
  /\ go \in [Procs -> Locals]
  /\ raced \in BOOLEAN
  /\ unprojected \in SUBSET Nat

\* What the code has in hand at each of its places.
InHand(l) ==
  /\ l.seen \subseteq Stored
  /\ l.sug \in 0 .. Len(suggestions)
  /\ l.pc = "getFact" => l.fact \in Stored
  /\ l.pc = "getSug" => l.sug # 0
  /\ l.pc = "supersede" => l.op \in {"edit", "new", "acceptSug", "extract"}
  /\ l.pc = "close" => l.op \in {"acceptSug", "rejectSug"}
  /\ l.pc \in {"deactivate", "summary"} => l.op # "extract"
  /\ l.pc = "candidate" => l.op = "extract" /\ l.todo # <<>>
  /\ l.op = "extract" /\ l.pc \in {"supersede", "insert"} => l.todo # <<>>
  /\ l.activated => l.op = "extract" /\ l.pc \in {"candidate", "supersede", "insert"}
  /\ l.sug # 0 => /\ l.pc \in {"getSug", "supersede", "insert", "close", "list", "upsert"}
                  /\ l.pc \in {"supersede", "insert"} => l.op = "acceptSug"
                  /\ l.pc = "getSug" => l.op \in {"acceptSug", "rejectSug"}

Control ==
  /\ \A p \in Procs : InHand(go[p])
  /\ profile.shows \subseteq Stored
  /\ \A i \in Stored : facts[i].from \in 0 .. Len(suggestions)

\* The facts a suggestion has made.
Made(s) == {i \in Stored : facts[i].from = s}
MadeOne(s) == \E i \in Stored : Made(s) = {i}
Kept(s) == IF suggestions[s].status = "accepted" THEN MadeOne(s) ELSE Made(s) = {}

\* How far the goroutine that decides a suggestion has come.
Standing(l) ==
  /\ l.pc = "getSug" => Kept(l.sug)
  /\ l.pc \in {"supersede", "insert", "close"} => suggestions[l.sug].status = "pending"
  /\ l.pc \in {"supersede", "insert"} => Made(l.sug) = {}
  /\ l.pc = "close" => IF l.op = "acceptSug" THEN MadeOne(l.sug) ELSE Made(l.sug) = {}
  /\ l.pc \in {"list", "upsert"} => suggestions[l.sug].status = "accepted" /\ MadeOne(l.sug)

Decided ==
  \A s \in 1 .. Len(suggestions) : s \notin contested \cup cut =>
    /\ \A p, q \in Procs : go[p].sug = s /\ go[q].sug = s => p = q
    /\ Undecided(s) => Kept(s)
    /\ \A p \in Procs : go[p].sug = s => Standing(go[p])

\* A goroutine that will write a projection which says of i what is so.
WillShow(l, i) ==
  \/ l.pc = "list" \/ l.activated
  \/ l.pc = "close" /\ l.op = "acceptSug"
  \/ l.pc = "insert" /\ Projects(l.op)
  \/ l.pc = "upsert" /\ (i \in l.seen <=> i \in Active)
Covered(i) == \E p \in Procs : WillShow(go[p], i)

\* A projection, written or in hand, is right of every fact, or somebody will put it right.
Shown ==
  ~raced =>
    /\ profile.by = "projection" =>
         \A i \in Stored \ unprojected : (i \in profile.shows <=> i \in Active) \/ Covered(i)
    /\ \A p \in Procs : go[p].pc = "upsert" =>
         \A i \in Stored \ unprojected : (i \in go[p].seen <=> i \in Active) \/ Covered(i)

MemInv == MemTypeOK /\ Control /\ SupersededHasHeir /\ Decided /\ Shown

-----------------------------------------------------------------------------
(* The rows and the goroutines, piece by piece *)

LEMMA MemTypes ==
  ASSUME MemTypeOK
  PROVE  /\ Len(facts) \in Nat /\ \A i \in Stored : facts[i] \in FactRow
         /\ Len(suggestions) \in Nat /\ \A s \in 1 .. Len(suggestions) : suggestions[s] \in SuggestionRow
         /\ \A p \in Procs : go[p] \in Locals
         /\ Stored \subseteq Nat \ {0} /\ Active \subseteq Stored
  BY DEF MemTypeOK, Stored, Active

LEMMA IdleIs ==
  /\ Idle \in Locals
  /\ Idle.pc = "idle" /\ Idle.op = "none" /\ Idle.fact = 0 /\ Idle.sug = 0 /\ Idle.text = NoText
  /\ Idle.sensitive = FALSE /\ Idle.seen = {} /\ Idle.todo = <<>> /\ Idle.activated = FALSE
  BY EmptySeq DEF Idle, Locals, Pcs, Ops, TextOrNone

\* Only p has moved, to r.
Moves(p, r) ==
  /\ go' \in [Procs -> Locals]
  /\ go'[p] = r
  /\ \A q \in Procs : q # p => go'[q] = go[q]

LEMMA GoMoves ==
  ASSUME MemTypeOK, NEW p \in Procs, NEW r \in Locals, go' = [go EXCEPT ![p] = r]
  PROVE  Moves(p, r)
  BY DEF MemTypeOK, Moves

\* The suggestion in hand and nothing else.
ListRow(s) == [Idle EXCEPT !.pc = "list", !.sug = s]

LEMMA ListRowIs ==
  ASSUME NEW s \in Nat
  PROVE  /\ ListRow(s) \in Locals
         /\ ListRow(s).pc = "list" /\ ListRow(s).op = "none" /\ ListRow(s).sug = s /\ ListRow(s).fact = 0
         /\ ListRow(s).seen = {} /\ ListRow(s).activated = FALSE
  BY EmptySeq DEF ListRow, Idle, Locals, Pcs, Ops, TextOrNone

\* The rows of facts where one of them is changed.
Changed(i) ==
  /\ facts' \in Seq(FactRow)
  /\ Stored' = Stored
  /\ \A j \in Stored : /\ facts'[j].from = facts[j].from
                       /\ facts'[j].supersedes = facts[j].supersedes
                       /\ j # i => facts'[j] = facts[j]

LEMMA RowReplaced ==
  ASSUME MemTypeOK, NEW i \in Stored, NEW new \in FactRow, facts' = [facts EXCEPT ![i] = new],
         new.from = facts[i].from, new.supersedes = facts[i].supersedes
  PROVE  Changed(i) /\ facts'[i] = new
  <1>1. facts' \in Seq(FactRow) /\ Len(facts') = Len(facts)
        /\ \A j \in Stored : facts'[j] = IF j = i THEN new ELSE facts[j]
    BY ExceptSeq DEF MemTypeOK, Stored
  <1> QED  BY <1>1 DEF Changed, Stored

LEMMA RowChanges ==
  ASSUME MemTypeOK, NEW i \in Nat, NEW on \in BOOLEAN,
         NEW status \in {"active", "superseded", "outdated", "rejected", "pending_review"},
         facts' = [facts EXCEPT ![i].on = on, ![i].status = status]
  PROVE  /\ Changed(i)
         /\ i \in Stored => facts'[i].status = status /\ facts'[i].on = on
  <1>1. CASE i \in Stored
    <2> DEFINE new == [facts[i] EXCEPT !.on = on, !.status = status]
    <2>1. new \in FactRow /\ new.from = facts[i].from /\ new.supersedes = facts[i].supersedes
          /\ new.status = status /\ new.on = on
      BY <1>1, MemTypes DEF FactRow
    <2>2. facts' = [facts EXCEPT ![i] = new]
      OBVIOUS
    <2> HIDE DEF new
    <2> QED  BY <1>1, <2>1, <2>2, RowReplaced
  <1>2. CASE i \notin Stored
    <2>1. i \notin DOMAIN facts
      BY <1>2, LenProperties DEF MemTypeOK, Stored
    <2>2. facts' = facts
      BY <2>1 DEF MemTypeOK
    <2> QED  BY <1>2, <2>2 DEF Changed, MemTypeOK, Stored
  <1> QED  BY <1>1, <1>2

LEMMA RowDeactivated ==
  ASSUME MemTypeOK, NEW i \in Nat, Deactivated(i)
  PROVE  /\ Changed(i)
         /\ i \in Stored => facts'[i].status = facts[i].status
  <1>1. CASE i \in Stored
    <2> DEFINE new == [facts[i] EXCEPT !.on = FALSE]
    <2>1. new \in FactRow /\ new.from = facts[i].from /\ new.supersedes = facts[i].supersedes
          /\ new.status = facts[i].status
      BY <1>1, MemTypes DEF FactRow
    <2>2. facts' = [facts EXCEPT ![i] = new]
      BY DEF Deactivated
    <2> HIDE DEF new
    <2> QED  BY <1>1, <2>1, <2>2, RowReplaced
  <1>2. CASE i \notin Stored
    <2>1. i \notin DOMAIN facts
      BY <1>2, LenProperties DEF MemTypeOK, Stored
    <2>2. facts' = facts
      BY <2>1 DEF MemTypeOK, Deactivated
    <2> QED  BY <1>2, <2>2 DEF Changed, MemTypeOK, Stored
  <1> QED  BY <1>1, <1>2

\* A changed row leaves what the suggestions have made, and the other active facts.
LEMMA ChangedKeeps ==
  ASSUME MemTypeOK, NEW i \in Nat, Changed(i)
  PROVE  /\ \A s \in Nat : Made(s)' = Made(s)
         /\ \A j \in Stored : j # i => (j \in Active' <=> j \in Active)
  BY DEF Changed, Made, Active

\* A new row at the end.
Added(new) ==
  /\ facts' \in Seq(FactRow)
  /\ Stored' = Stored \cup {Len(facts) + 1} /\ Len(facts) + 1 \notin Stored
  /\ \A j \in Stored : facts'[j] = facts[j]
  /\ facts'[Len(facts) + 1] = new

LEMMA RowAdded ==
  ASSUME MemTypeOK, NEW new \in FactRow, facts' = Append(facts, new)
  PROVE  Added(new)
  BY MemTypes, AppendProperties DEF MemTypeOK, Added, Stored

-----------------------------------------------------------------------------
(* What a step has to show of each part of the invariant *)

LEMMA ControlMoves ==
  ASSUME MemTypeOK, Control, NEW p \in Procs, NEW r \in Locals, Moves(p, r), InHand(r)',
         Stored \subseteq Stored', Len(suggestions') \in Nat, Len(suggestions) <= Len(suggestions'),
         profile'.shows \subseteq Stored', \A i \in Stored' : facts'[i].from \in 0 .. Len(suggestions')
  PROVE  Control'
  <1>1. ASSUME NEW q \in Procs PROVE InHand(go[q])'
    <2>1. CASE q = p
      BY <2>1 DEF Moves, InHand
    <2>2. CASE q # p
      <3>1. go'[q] = go[q] /\ InHand(go[q]) /\ Len(suggestions) \in Nat
        BY <2>2, MemTypes DEF Moves, Control
      <3> QED  BY <3>1 DEF InHand
    <2> QED  BY <2>1, <2>2
  <1> QED  BY <1>1 DEF Control

\* The goroutine that has superseded a fact inserts its successor, or its failure is
\* on record.
LEMMA HeirMoves ==
  ASSUME SupersededHasHeir, NEW p \in Procs, NEW r \in Locals, Moves(p, r),
         Stored \subseteq Stored', orphaned \subseteq orphaned',
         \A i \in Stored : facts'[i].supersedes = facts[i].supersedes,
         \A i \in Stored' : facts'[i].status = "superseded" =>
           \/ i \in Stored /\ facts[i].status = "superseded"
           \/ r.pc = "insert" /\ r.fact = i,
         go[p].pc = "insert" =>
           \/ r.pc = "insert" /\ r.fact = go[p].fact
           \/ go[p].fact \in orphaned' \/ go[p].fact \notin Stored
           \/ \E j \in Stored' : facts'[j].supersedes = go[p].fact
  PROVE  SupersededHasHeir'
  <1> SUFFICES ASSUME NEW i \in Stored', facts'[i].status = "superseded"
               PROVE  \/ i \in orphaned'
                      \/ \E j \in Stored' : facts'[j].supersedes = i
                      \/ \E q \in Procs : go'[q].pc = "insert" /\ go'[q].fact = i
    BY DEF SupersededHasHeir
  <1>1. CASE r.pc = "insert" /\ r.fact = i
    BY <1>1 DEF Moves
  <1>2. CASE i \in Stored /\ facts[i].status = "superseded"
    <2>1. CASE i \in orphaned \/ \E j \in Stored : facts[j].supersedes = i
      BY <2>1
    <2>2. CASE \E q \in Procs : go[q].pc = "insert" /\ go[q].fact = i
      BY <1>2, <2>2 DEF Moves
    <2> QED  BY <1>2, <2>1, <2>2 DEF SupersededHasHeir
  <1> QED  BY <1>1, <1>2

\* What is so of a suggestion is so as long as it and its facts are left alone.
LEMMA Unmoved ==
  ASSUME NEW s, Made(s)' = Made(s), suggestions'[s].status = suggestions[s].status
  PROVE  /\ MadeOne(s) => MadeOne(s)'
         /\ Kept(s) => Kept(s)'
         /\ \A l \in Locals : l.sug = s /\ Standing(l) => Standing(l)'
  <1>1. MadeOne(s) => MadeOne(s)'
    BY DEF MadeOne, Made
  <1>2. Kept(s) => Kept(s)'
    BY <1>1 DEF Kept
  <1> QED  BY <1>1, <1>2 DEF Standing

\* A goroutine touches the suggestion it decides, and no other.
LEMMA DecidedMoves ==
  ASSUME MemTypeOK, Decided, NEW p \in Procs, NEW r \in Locals, Moves(p, r),
         NEW d \in 0 .. Len(suggestions), d = go[p].sug,
         contested \cup cut \subseteq contested' \cup cut', r.sug \in {0, d},
         \A s \in 1 .. Len(suggestions') : s # d =>
           \/ /\ s \in 1 .. Len(suggestions)
              /\ Made(s)' = Made(s) /\ suggestions'[s].status = suggestions[s].status
           \/ Kept(s)' /\ \A q \in Procs : go[q].sug # s,
         d # 0 /\ d \notin contested' \cup cut' /\ Standing(go[p]) =>
           IF r.sug = d THEN Standing(r)' ELSE Kept(d)'
  PROVE  Decided'
  <1> SUFFICES ASSUME NEW s \in 1 .. Len(suggestions'), s \notin contested' \cup cut'
               PROVE  /\ \A q1, q2 \in Procs : go'[q1].sug = s /\ go'[q2].sug = s => q1 = q2
                      /\ Undecided(s)' => Kept(s)'
                      /\ \A q \in Procs : go'[q].sug = s => Standing(go[q])'
    BY DEF Decided
  <1>0. s # 0 /\ s \notin contested \cup cut
    BY MemTypes
  <1>1. CASE s = d
    <2>1. s \in 1 .. Len(suggestions)
      BY <1>0, <1>1
    <2>2. Standing(go[p]) /\ \A q \in Procs : q # p => go'[q].sug # s
      BY <1>0, <1>1, <2>1 DEF Decided, Moves
    <2>3. IF r.sug = s THEN Standing(r)' ELSE Kept(s)'
      BY <1>1, <2>1, <2>2
    <2>4. CASE r.sug = s
      <3>1. Standing(go[p])' /\ go'[p].sug = s
        BY <2>3, <2>4 DEF Moves, Standing
      <3> QED  BY <2>2, <3>1 DEF Undecided
    <2>5. CASE r.sug # s
      <3>1. go'[p].sug # s /\ Kept(s)'
        BY <2>3, <2>5 DEF Moves
      <3> QED  BY <2>2, <3>1 DEF Undecided
    <2> QED  BY <2>4, <2>5
  <1>2. CASE s # d
    <2>1. \A q \in Procs : go'[q].sug = s => q # p /\ go'[q] = go[q]
      BY <1>0, <1>2 DEF Moves
    <2>2. CASE Kept(s)' /\ \A q \in Procs : go[q].sug # s
      BY <2>1, <2>2
    <2>3. CASE /\ s \in 1 .. Len(suggestions)
               /\ Made(s)' = Made(s) /\ suggestions'[s].status = suggestions[s].status
      <3>1. Undecided(s)' => Undecided(s)
        BY <1>2 DEF Undecided, Moves
      <3>2. Kept(s) => Kept(s)'
        BY <2>3, Unmoved
      <3>3. ASSUME NEW q \in Procs, go'[q].sug = s PROVE Standing(go[q])'
        <4>1. PICK l \in Locals : l = go[q]
          BY MemTypes
        <4>2. go'[q] = l /\ Standing(l) /\ l.sug = s
          BY <1>0, <2>1, <2>3, <3>3, <4>1 DEF Decided
        <4>3. Standing(l)'
          BY <2>3, <4>2, Unmoved
        <4> QED  BY <4>2, <4>3 DEF Standing
      <3> QED  BY <1>0, <2>1, <2>3, <3>1, <3>2, <3>3 DEF Decided
    <2> QED  BY <1>2, <2>2, <2>3
  <1> QED  BY <1>1, <1>2

\* A goroutine that changes a fact will show it; and one that will show a fact does
\* not turn away.
LEMMA ShownMoves ==
  ASSUME Shown, NEW p \in Procs, NEW r \in Locals, Moves(p, r), raced' = raced,
         profile'.by = "projection" => profile' = profile,
         \A i \in Stored' \ unprojected' :
           \/ WillShow(r, i)'
           \/ /\ i \in Stored \ unprojected /\ (i \in Active' <=> i \in Active)
              /\ WillShow(go[p], i) => WillShow(r, i)',
         r.pc = "upsert" => r.seen = Active' \/ r = go[p]
  PROVE  Shown'
  <1> SUFFICES ASSUME ~raced, NEW i \in Stored' \ unprojected'
               PROVE  /\ profile'.by = "projection" => (i \in profile'.shows <=> i \in Active') \/ Covered(i)'
                      /\ \A q \in Procs : go'[q].pc = "upsert" =>
                           (i \in go'[q].seen <=> i \in Active') \/ Covered(i)'
    BY DEF Shown
  <1>1. CASE WillShow(r, i)'
    BY <1>1 DEF Covered, Moves, WillShow
  <1>2. CASE /\ i \in Stored \ unprojected /\ (i \in Active' <=> i \in Active)
             /\ WillShow(go[p], i) => WillShow(r, i)'
    <2>1. ASSUME Covered(i) PROVE Covered(i)'
      <3>1. PICK q \in Procs : WillShow(go[q], i)
        BY <2>1 DEF Covered
      <3>2. CASE q = p
        BY <1>2, <3>1, <3>2 DEF Covered, Moves, WillShow
      <3>3. CASE q # p
        BY <1>2, <3>1, <3>3 DEF Covered, Moves, WillShow
      <3> QED  BY <3>2, <3>3
    <2>2. profile'.by = "projection" => (i \in profile'.shows <=> i \in Active') \/ Covered(i)'
      BY <1>2, <2>1 DEF Shown
    <2>3. ASSUME NEW q \in Procs, go'[q].pc = "upsert"
          PROVE  (i \in go'[q].seen <=> i \in Active') \/ Covered(i)'
      BY <1>2, <2>1, <2>3 DEF Shown, Moves
    <2> QED  BY <2>2, <2>3
  <1> QED  BY <1>1, <1>2

\* A step that moves a goroutine and nothing else.
LEMMA QuietMoves ==
  ASSUME MemInv, NEW p \in Procs, NEW r \in Locals, go' = [go EXCEPT ![p] = r],
         UNCHANGED <<facts, suggestions, profile, history>>,
         InHand(r), go[p].pc # "insert", r.sug \in {0, go[p].sug},
         go[p].sug # 0 /\ Standing(go[p]) => IF r.sug = go[p].sug THEN Standing(r) ELSE Kept(go[p].sug),
         \A i \in Stored : WillShow(go[p], i) => WillShow(r, i),
         r.pc = "upsert" => r.seen = Active
  PROVE  MemInv'
  <1>1. MemTypeOK /\ Control /\ SupersededHasHeir /\ Decided /\ Shown /\ Moves(p, r)
    BY GoMoves DEF MemInv
  <1>2. /\ Stored' = Stored /\ Active' = Active /\ \A s : Made(s)' = Made(s)
        /\ Len(suggestions) \in Nat /\ go[p].sug \in 0 .. Len(suggestions)
        /\ orphaned' = orphaned /\ raced' = raced /\ unprojected' = unprojected
        /\ contested' = contested /\ cut' = cut
    BY <1>1, MemTypes DEF Stored, Active, Made, history, Control, InHand
  <1>3. MemTypeOK'
    BY <1>1, <1>2 DEF MemTypeOK, Moves
  <1>4. Control'
    <2>1. InHand(r)'
      BY <1>2 DEF InHand
    <2> QED  BY <1>1, <1>2, <2>1, ControlMoves DEF Control
  <1>5. SupersededHasHeir'
    BY <1>1, <1>2, HeirMoves
  <1>6. Decided'
    <2>1. /\ Standing(r) => Standing(r)'
          /\ \A s : Kept(s) => Kept(s)'
      BY <1>1, <1>2, Unmoved DEF Kept, MadeOne, Standing
    <2>2. PICK s \in 0 .. Len(suggestions) : s = go[p].sug
      BY <1>2
    <2>3. s # 0 /\ Standing(go[p]) => IF r.sug = s THEN Standing(r)' ELSE Kept(s)'
      BY <2>1, <2>2
    <2> QED  BY <1>1, <1>2, <2>2, <2>3, DecidedMoves
  <1>7. Shown'
    <2>1. \A i \in Stored : WillShow(r, i) => WillShow(r, i)'
      BY <1>2 DEF WillShow
    <2> QED  BY <1>1, <1>2, <2>1, ShownMoves
  <1> QED  BY <1>3, <1>4, <1>5, <1>6, <1>7 DEF MemInv

LEMMA HasInHand ==
  ASSUME MemInv, NEW p \in Procs
  PROVE  /\ MemTypeOK /\ Control /\ SupersededHasHeir /\ Decided /\ Shown
         /\ go[p] \in Locals /\ InHand(go[p])
         /\ go[p].pc \in Pcs /\ go[p].op \in Ops /\ go[p].fact \in Nat /\ go[p].sug \in Nat /\ go[p].text \in TextOrNone
         /\ go[p].sensitive \in BOOLEAN /\ go[p].seen \in SUBSET Nat /\ go[p].todo \in Seq(Candidate)
         /\ go[p].activated \in BOOLEAN
         /\ Len(suggestions) \in Nat /\ go[p].sug \in 0 .. Len(suggestions)
         /\ Len(facts) \in Nat
  <1>1. MemTypeOK /\ Control /\ go[p] \in Locals /\ InHand(go[p])
    BY MemTypes DEF MemInv, Control
  <1> QED  BY <1>1, MemTypes DEF MemInv, Locals, InHand

-----------------------------------------------------------------------------
(* The steps that only move a goroutine *)

LEMMA StartMoves ==
  ASSUME MemInv, NEW p \in Procs, NEW r \in Locals, Starts(p, r), UNCHANGED history,
         r.pc \in {"getFact", "set", "insert", "existing"}, r.sug = 0, r.seen = {}, ~r.activated,
         r.op = "extract" => r.pc = "existing", r.pc = "getFact" => r.fact \in Stored
  PROVE  MemInv'
  <1>1. go[p].pc = "idle" /\ go[p].sug = 0 /\ ~go[p].activated /\ go' = [go EXCEPT ![p] = r]
    BY HasInHand DEF Starts, InHand
  <1>2. InHand(r) /\ \A i : ~WillShow(go[p], i)
    BY <1>1, HasInHand DEF InHand, WillShow
  <1> QED  BY <1>1, <1>2, QuietMoves DEF Starts

LEMMA StartRowIs ==
  ASSUME NEW pc \in Pcs, NEW op \in Ops, NEW i \in Nat, NEW t \in TextOrNone
  PROVE  /\ [Idle EXCEPT !.pc = pc, !.op = op, !.fact = i, !.text = t] \in Locals
         /\ [Idle EXCEPT !.pc = pc, !.op = op, !.text = t] \in Locals
         /\ [Idle EXCEPT !.pc = pc, !.op = op] \in Locals
  <1>1. NoText \in TextOrNone /\ <<>> \in Seq(Candidate)
    BY EmptySeq DEF TextOrNone
  <1>2. [Idle EXCEPT !.pc = pc, !.op = op, !.fact = i, !.text = t] \in Locals
    BY <1>1 DEF Idle, Locals
  <1>3. [Idle EXCEPT !.pc = pc, !.op = op, !.text = t] \in Locals
    BY <1>1 DEF Idle, Locals
  <1>4. [Idle EXCEPT !.pc = pc, !.op = op] \in Locals
    BY <1>1 DEF Idle, Locals
  <1> QED  BY <1>2, <1>3, <1>4

LEMMA StartItemKeeps ==
  ASSUME MemInv, NEW p \in Procs, StartItem(p)
  PROVE  MemInv'
  <1>1. PICK op \in ItemOps, i \in Stored, t \in Text :
          Starts(p, [Idle EXCEPT !.pc = "getFact", !.op = op, !.fact = i, !.text = t])
    BY DEF StartItem
  <1> DEFINE r == [Idle EXCEPT !.pc = "getFact", !.op = op, !.fact = i, !.text = t]
  <1>2. op \in Ops /\ op # "extract" /\ i \in Nat /\ t \in TextOrNone /\ "getFact" \in Pcs
    BY HasInHand, MemTypes DEF Ops, ItemOps, Pcs, TextOrNone
  <1>3. r \in Locals
    BY <1>2, StartRowIs
  <1>4. r.pc = "getFact" /\ r.op = op /\ r.fact = i /\ r.sug = 0 /\ r.seen = {} /\ ~r.activated
    BY DEF Idle
  <1>5. Starts(p, r) /\ UNCHANGED history
    BY <1>1 DEF StartItem
  <1> HIDE DEF r
  <1> QED  BY <1>2, <1>3, <1>4, <1>5, StartMoves

LEMMA StartBlindSetKeeps ==
  ASSUME MemInv, NEW p \in Procs, StartBlindSet(p)
  PROVE  MemInv'
  <1>1. PICK op \in {"reject", "outdated"}, i \in Stored :
          Starts(p, [Idle EXCEPT !.pc = "set", !.op = op, !.fact = i, !.text = facts[i].text])
    BY DEF StartBlindSet
  <1>2. PICK t \in TextOrNone : t = facts[i].text
    BY HasInHand, MemTypes DEF FactRow
  <1> DEFINE r == [Idle EXCEPT !.pc = "set", !.op = op, !.fact = i, !.text = t]
  <1>3. op \in Ops /\ op # "extract" /\ i \in Nat /\ "set" \in Pcs
    BY HasInHand, MemTypes DEF Ops, ItemOps, Pcs
  <1>4. r \in Locals
    BY <1>3, StartRowIs
  <1>5. r.pc = "set" /\ r.op = op /\ r.sug = 0 /\ r.seen = {} /\ ~r.activated
    BY DEF Idle
  <1>6. Starts(p, r) /\ UNCHANGED history
    BY <1>1, <1>2 DEF StartBlindSet
  <1> HIDE DEF r
  <1> QED  BY <1>3, <1>4, <1>5, <1>6, StartMoves

LEMMA StartOldKeeps ==
  ASSUME MemInv, NEW p \in Procs, StartOld(p)
  PROVE  MemInv'
  <1>1. CASE \E op \in OldOps, i \in Stored, t \in Text :
               Starts(p, [Idle EXCEPT !.pc = "getFact", !.op = op, !.fact = i, !.text = t])
    <2>1. PICK op \in OldOps, i \in Stored, t \in Text :
            Starts(p, [Idle EXCEPT !.pc = "getFact", !.op = op, !.fact = i, !.text = t])
      BY <1>1
    <2> DEFINE r == [Idle EXCEPT !.pc = "getFact", !.op = op, !.fact = i, !.text = t]
    <2>2. op \in Ops /\ op # "extract" /\ i \in Nat /\ t \in TextOrNone /\ "getFact" \in Pcs
      BY HasInHand, MemTypes DEF Ops, OldOps, Pcs, TextOrNone
    <2>3. r \in Locals
      BY <2>2, StartRowIs
    <2>4. r.pc = "getFact" /\ r.op = op /\ r.fact = i /\ r.sug = 0 /\ r.seen = {} /\ ~r.activated
      BY DEF Idle
    <2>5. Starts(p, r) /\ UNCHANGED history
      BY <2>1 DEF StartOld
    <2> HIDE DEF r
    <2> QED  BY <2>2, <2>3, <2>4, <2>5, StartMoves
  <1>2. CASE \E t \in Text : Starts(p, [Idle EXCEPT !.pc = "insert", !.op = "create", !.text = t])
    <2>1. PICK t \in Text : Starts(p, [Idle EXCEPT !.pc = "insert", !.op = "create", !.text = t])
      BY <1>2
    <2> DEFINE r == [Idle EXCEPT !.pc = "insert", !.op = "create", !.text = t]
    <2>2. t \in TextOrNone /\ "insert" \in Pcs /\ "create" \in Ops /\ 0 \in Nat
      BY DEF Ops, Pcs, TextOrNone
    <2>3. r \in Locals
      BY <2>2, StartRowIs
    <2>4. r.pc = "insert" /\ r.op = "create" /\ r.sug = 0 /\ r.seen = {} /\ ~r.activated
      BY DEF Idle
    <2>5. Starts(p, r) /\ UNCHANGED history
      BY <2>1 DEF StartOld
    <2> HIDE DEF r
    <2> QED  BY <2>3, <2>4, <2>5, StartMoves
  <1> QED  BY <1>1, <1>2 DEF StartOld

LEMMA StartJobKeeps ==
  ASSUME MemInv, NEW p \in Procs, StartExtract(p) \/ StartCompile(p)
  PROVE  MemInv'
  <1>1. PICK op \in {"extract", "compile"} : Starts(p, [Idle EXCEPT !.pc = "existing", !.op = op]) /\ UNCHANGED history
    BY DEF StartExtract, StartCompile
  <1> DEFINE r == [Idle EXCEPT !.pc = "existing", !.op = op]
  <1>2. op \in Ops /\ "existing" \in Pcs
    BY DEF Ops, Pcs
  <1>3. r \in Locals
    BY <1>2, StartRowIs DEF TextOrNone
  <1>4. r.pc = "existing" /\ r.sug = 0 /\ r.seen = {} /\ ~r.activated
    BY DEF Idle
  <1> HIDE DEF r
  <1>5. Starts(p, r)
    BY <1>1 DEF r
  <1> QED  BY <1>1, <1>3, <1>4, <1>5, StartMoves

LEMMA GetFactKeeps ==
  ASSUME MemInv, NEW p \in Procs, GetFact(p)
  PROVE  MemInv'
  <1>0. /\ go[p] \in Locals /\ InHand(go[p]) /\ go[p].pc = "getFact" /\ go[p].op \in ItemOps
        /\ UNCHANGED <<facts, suggestions, profile, history>>
    BY HasInHand DEF GetFact
  <1>1. go[p].sug = 0 /\ ~go[p].activated /\ go[p].fact \in Stored /\ go[p].op # "extract"
    BY <1>0, HasInHand DEF InHand, ItemOps
  <1>2. \A i : ~WillShow(go[p], i)
    BY <1>0, <1>1 DEF WillShow
  <1>3. CASE go' = [go EXCEPT ![p] = Idle]
    <2>1. InHand(Idle)
      BY IdleIs, HasInHand DEF InHand
    <2> QED  BY <1>0, <1>1, <1>2, <1>3, <2>1, IdleIs, QuietMoves
  <1>4. CASE ~ (go' = [go EXCEPT ![p] = Idle])
    <2>1. PICK pc \in {"supersede", "set"} :
            /\ go' = [go EXCEPT ![p].pc = pc, ![p].sensitive = facts[go[p].fact].sensitive]
            /\ pc = "supersede" => go[p].op \in {"edit", "new"}
      BY <1>4 DEF GetFact, Ends, AfterGet
    <2>2. PICK b \in BOOLEAN : b = facts[go[p].fact].sensitive
      BY <1>1, HasInHand, MemTypes DEF FactRow
    <2> DEFINE r == [go[p] EXCEPT !.pc = pc, !.sensitive = b]
    <2>3. /\ r \in Locals /\ r.pc = pc /\ r.sug = go[p].sug /\ r.activated = go[p].activated
          /\ r.seen = go[p].seen /\ r.op = go[p].op
      BY <1>0 DEF Locals, Pcs
    <2>4. go' = [go EXCEPT ![p] = r]
      BY <2>1, <2>2
    <2> HIDE DEF r
    <2>5. InHand(r)
      BY <1>0, <1>1, <2>1, <2>3, HasInHand DEF InHand
    <2> QED  BY <1>0, <1>1, <1>2, <2>3, <2>4, <2>5, QuietMoves
  <1> QED  BY <1>3, <1>4

LEMMA GetActiveFactKeeps ==
  ASSUME MemInv, NEW p \in Procs, GetActiveFact(p)
  PROVE  MemInv'
  <1>0. /\ go[p] \in Locals /\ InHand(go[p]) /\ go[p].pc = "getFact" /\ go[p].op \in OldOps
        /\ UNCHANGED <<facts, suggestions, profile, history>>
    BY HasInHand DEF GetActiveFact
  <1>1. go[p].sug = 0 /\ ~go[p].activated
    BY <1>0, HasInHand DEF InHand
  <1>2. \A i : ~WillShow(go[p], i)
    BY <1>0, <1>1 DEF WillShow
  <1>3. CASE go' = [go EXCEPT ![p] = Idle]
    <2>1. InHand(Idle)
      BY IdleIs, HasInHand DEF InHand
    <2> QED  BY <1>0, <1>1, <1>2, <1>3, <2>1, IdleIs, QuietMoves
  <1>4. CASE go' = [go EXCEPT ![p].pc = "deactivate"]
    <2> DEFINE r == [go[p] EXCEPT !.pc = "deactivate"]
    <2>3. /\ r \in Locals /\ r.pc = "deactivate" /\ r.sug = go[p].sug /\ r.activated = go[p].activated
          /\ r.seen = go[p].seen /\ r.op = go[p].op
      BY <1>0 DEF Locals, Pcs
    <2>4. go' = [go EXCEPT ![p] = r]
      BY <1>4
    <2> HIDE DEF r
    <2>5. InHand(r)
      BY <1>0, <1>1, <2>3, HasInHand DEF InHand, OldOps
    <2> QED  BY <1>0, <1>1, <1>2, <2>3, <2>4, <2>5, QuietMoves
  <1> QED  BY <1>3, <1>4 DEF GetActiveFact, Ends, Goto

LEMMA GetSuggestionKeeps ==
  ASSUME MemInv, NEW p \in Procs, GetSuggestion(p)
  PROVE  MemInv'
  <1>0. /\ go[p] \in Locals /\ InHand(go[p]) /\ go[p].pc = "getSug"
        /\ UNCHANGED <<facts, suggestions, profile, history>>
    BY HasInHand DEF GetSuggestion
  <1>1. ~go[p].activated
    BY <1>0, HasInHand DEF InHand
  <1>2. \A i : ~WillShow(go[p], i)
    BY <1>0, <1>1 DEF WillShow
  <1>3. Standing(go[p]) => Kept(go[p].sug)
    BY <1>0 DEF Standing
  <1>4. CASE go' = [go EXCEPT ![p] = Idle]
    <2>1. InHand(Idle)
      BY IdleIs, HasInHand DEF InHand
    <2> QED  BY <1>0, <1>2, <1>3, <1>4, <2>1, IdleIs, QuietMoves
  <1> DEFINE sug == suggestions[go[p].sug]
  <1>5. CASE sug.status = "pending" /\ go[p].op = "acceptSug" /\ Activating(p, sug)
    <2>1. go[p].sug # 0
      BY <1>0 DEF InHand
    <2>2. sug.text \in Text /\ sug.sensitive \in BOOLEAN /\ sug.conflict \in Nat
      BY <2>1, HasInHand, MemTypes DEF SuggestionRow
    <2>3. PICK t \in TextOrNone, b \in BOOLEAN, c \in Nat : t = sug.text /\ b = sug.sensitive /\ c = sug.conflict
      BY <2>2 DEF TextOrNone
    <2>4. PICK pc \in {"supersede", "insert"} : pc = IF sug.conflict # 0 THEN "supersede" ELSE "insert"
      OBVIOUS
    <2> DEFINE r == [go[p] EXCEPT !.pc = pc, !.fact = c, !.text = t, !.sensitive = b]
    <2>5. /\ r \in Locals /\ r.pc = pc /\ r.sug = go[p].sug /\ r.activated = go[p].activated
          /\ r.seen = go[p].seen /\ r.op = go[p].op /\ r.todo = go[p].todo
      BY <1>0 DEF Locals, Pcs
    <2>6. go' = [go EXCEPT ![p] = r]
      BY <1>5, <2>3, <2>4 DEF Activating
    <2> HIDE DEF r
    <2>7. InHand(r)
      BY <1>0, <1>1, <1>5, <2>5, HasInHand DEF InHand
    <2>8. Standing(go[p]) => Standing(r)
      BY <1>3, <1>5, <2>5 DEF Standing, Kept
    <2> QED  BY <1>0, <1>2, <2>5, <2>6, <2>7, <2>8, QuietMoves
  <1>6. CASE sug.status = "pending" /\ go[p].op # "acceptSug" /\ go' = [go EXCEPT ![p].pc = "close"]
    <2> DEFINE r == [go[p] EXCEPT !.pc = "close"]
    <2>5. /\ r \in Locals /\ r.pc = "close" /\ r.sug = go[p].sug /\ r.activated = go[p].activated
          /\ r.seen = go[p].seen /\ r.op = go[p].op /\ r.todo = go[p].todo
      BY <1>0 DEF Locals, Pcs
    <2>6. go' = [go EXCEPT ![p] = r]
      BY <1>6
    <2> HIDE DEF r
    <2>7. InHand(r)
      BY <1>0, <1>1, <1>6, <2>5, HasInHand DEF InHand
    <2>8. Standing(go[p]) => Standing(r)
      BY <1>3, <1>6, <2>5 DEF Standing, Kept
    <2> QED  BY <1>0, <1>2, <2>5, <2>6, <2>7, <2>8, QuietMoves
  <1> QED  BY <1>4, <1>5, <1>6 DEF GetSuggestion, Ends, Goto

LEMMA SupersedeIgnoredKeeps ==
  ASSUME MemInv, NEW p \in Procs, SupersedeIgnored(p)
  PROVE  MemInv'
  <1>0. /\ go[p] \in Locals /\ InHand(go[p]) /\ go[p].pc = "supersede" /\ go[p].op = "acceptSug"
        /\ UNCHANGED <<facts, suggestions, profile, history>>
    BY HasInHand DEF SupersedeIgnored
  <1> DEFINE r == [go[p] EXCEPT !.pc = "insert"]
  <1>1. /\ r \in Locals /\ r.pc = "insert" /\ r.sug = go[p].sug /\ r.activated = go[p].activated
        /\ r.seen = go[p].seen /\ r.op = go[p].op /\ r.todo = go[p].todo
    BY <1>0 DEF Locals, Pcs
  <1>2. go' = [go EXCEPT ![p] = r]
    BY DEF SupersedeIgnored, Goto
  <1> HIDE DEF r
  <1>3. InHand(r)
    BY <1>0, <1>1, HasInHand DEF InHand
  <1>4. \A i : WillShow(go[p], i) => WillShow(r, i)
    BY <1>0, <1>1 DEF WillShow
  <1>5. Standing(go[p]) => Standing(r)
    BY <1>0, <1>1 DEF Standing
  <1> QED  BY <1>0, <1>1, <1>2, <1>3, <1>4, <1>5, QuietMoves

LEMMA ListActiveKeeps ==
  ASSUME MemInv, NEW p \in Procs, ListActive(p)
  PROVE  MemInv'
  <1>0. /\ go[p] \in Locals /\ InHand(go[p]) /\ go[p].pc = "list"
        /\ UNCHANGED <<facts, suggestions, profile, history>>
    BY HasInHand DEF ListActive
  <1>1. Active \subseteq Stored /\ Active \in SUBSET Nat
    BY HasInHand, MemTypes
  <1> DEFINE r == [go[p] EXCEPT !.pc = "upsert", !.seen = Active]
  <1>2. /\ r \in Locals /\ r.pc = "upsert" /\ r.sug = go[p].sug /\ r.activated = go[p].activated
        /\ r.seen = Active /\ r.op = go[p].op /\ r.todo = go[p].todo
    BY <1>0, <1>1 DEF Locals, Pcs
  <1>3. go' = [go EXCEPT ![p] = r]
    BY DEF ListActive
  <1> HIDE DEF r
  <1>4. InHand(r)
    BY <1>0, <1>1, <1>2, HasInHand DEF InHand
  <1>5. \A i : WillShow(r, i)
    BY <1>2 DEF WillShow
  <1>6. Standing(go[p]) => Standing(r)
    BY <1>0, <1>2 DEF Standing
  <1> QED  BY <1>0, <1>2, <1>3, <1>4, <1>5, <1>6, QuietMoves

LEMMA ReadFactsKeeps ==
  ASSUME MemInv, NEW p \in Procs, ReadFacts(p)
  PROVE  MemInv'
  <1>0. /\ go[p] \in Locals /\ InHand(go[p]) /\ go[p].pc = "existing" /\ go[p].op = "compile"
        /\ UNCHANGED <<facts, suggestions, profile, history>>
    BY HasInHand DEF ReadFacts
  <1>1. go[p].sug = 0 /\ ~go[p].activated
    BY <1>0, HasInHand DEF InHand
  <1>2. PICK old \in Nat, text \in TextOrNone, pc \in {"summary", "insert", "deactivate"} :
          go' = [go EXCEPT ![p] = [go[p] EXCEPT !.fact = old, !.text = text, !.pc = pc]]
    <2>1. PICK old \in {0} \cup {i \in Stored : facts[i].on}, text \in Text \cup {NoText}, summary \in BOOLEAN :
            go' = [go EXCEPT ![p] = [go[p] EXCEPT !.fact = old, !.text = text,
                     !.pc = IF summary THEN "summary" ELSE ToChange(old)]]
      BY DEF ReadFacts
    <2>2. old \in Nat /\ text \in TextOrNone
      BY HasInHand, MemTypes DEF TextOrNone
    <2>3. PICK pc \in {"summary", "insert", "deactivate"} : pc = IF summary THEN "summary" ELSE ToChange(old)
      BY DEF ToChange
    <2> QED  BY <2>1, <2>2, <2>3
  <1> DEFINE r == [go[p] EXCEPT !.fact = old, !.text = text, !.pc = pc]
  <1>3. /\ r \in Locals /\ r.pc = pc /\ r.sug = go[p].sug /\ r.activated = go[p].activated
        /\ r.seen = go[p].seen /\ r.op = go[p].op /\ r.todo = go[p].todo
    BY <1>0 DEF Locals, Pcs
  <1>4. go' = [go EXCEPT ![p] = r]
    BY <1>2
  <1> HIDE DEF r
  <1>5. InHand(r) /\ \A i : ~WillShow(go[p], i)
    BY <1>0, <1>1, <1>3, HasInHand DEF InHand, WillShow
  <1> QED  BY <1>0, <1>1, <1>3, <1>4, <1>5, QuietMoves

-----------------------------------------------------------------------------
(* An extraction *)

\* From one candidate to the next one, the projection or the end.
OnTheWay(r, seen, activated) ==
  /\ r.pc \in {"idle", "list", "candidate"} /\ r.sug = 0
  /\ r.pc = "candidate" => r.op = "extract" /\ r.todo # <<>>
  /\ r.seen \in {{}, seen}
  /\ r.activated => r.pc = "candidate"
  /\ activated => r.activated \/ r.pc = "list"

LEMMA ToCandidateIs ==
  ASSUME MemInv, NEW p \in Procs, NEW seen \in SUBSET Nat, NEW todo \in Seq(Candidate), NEW activated \in BOOLEAN,
         ToCandidate(p, seen, todo, activated), go[p].sug = 0
  PROVE  \E r \in Locals : go' = [go EXCEPT ![p] = r] /\ OnTheWay(r, seen, activated)
  <1>1. CASE todo # <<>>
    <2> DEFINE r == [Idle EXCEPT !.pc = "candidate", !.op = "extract", !.seen = seen,
                                 !.todo = todo, !.activated = activated]
    <2>1. /\ r \in Locals /\ r.pc = "candidate" /\ r.op = "extract" /\ r.sug = 0 /\ r.todo = todo
          /\ r.seen = seen /\ r.activated = activated
      BY DEF Idle, Locals, Pcs, Ops, TextOrNone
    <2>2. go' = [go EXCEPT ![p] = r]
      BY <1>1 DEF ToCandidate
    <2> HIDE DEF r
    <2> QED  BY <1>1, <2>1, <2>2 DEF OnTheWay
  <1>2. CASE todo = <<>> /\ activated
    <2>1. go' = [go EXCEPT ![p] = ListRow(0)]
      BY <1>2 DEF ToCandidate, ToList, ListRow
    <2>2. 0 \in Nat
      OBVIOUS
    <2> QED  BY <2>1, <2>2, ListRowIs DEF OnTheWay
  <1>3. CASE todo = <<>> /\ ~activated
    <2>1. go' = [go EXCEPT ![p] = Idle]
      BY <1>3 DEF ToCandidate, Ends
    <2> QED  BY <1>3, <2>1, IdleIs DEF OnTheWay
  <1> QED  BY <1>1, <1>2, <1>3

LEMMA ListExistingKeeps ==
  ASSUME MemInv, NEW p \in Procs, ListExisting(p)
  PROVE  MemInv'
  <1>0. /\ go[p] \in Locals /\ InHand(go[p]) /\ go[p].pc = "existing"
        /\ UNCHANGED <<facts, suggestions, profile, history>>
    BY HasInHand DEF ListExisting
  <1>1. go[p].sug = 0 /\ ~go[p].activated
    BY <1>0, HasInHand DEF InHand
  <1>2. PICK n \in 0..Candidates : \E todo \in [1..n -> Candidate] : ToCandidate(p, Active, todo, FALSE)
    BY DEF ListExisting
  <1>3. PICK todo \in [1..n -> Candidate] : ToCandidate(p, Active, todo, FALSE)
    BY <1>2
  <1>4. todo \in Seq(Candidate)
    BY SeqDef
  <1>5. Active \subseteq Stored /\ Active \in SUBSET Nat
    BY HasInHand, MemTypes
  <1>6. PICK r \in Locals : go' = [go EXCEPT ![p] = r] /\ OnTheWay(r, Active, FALSE)
    <2>1. PICK seen \in SUBSET Nat, b \in BOOLEAN : seen = Active /\ b = FALSE
      BY <1>5
    <2>2. ToCandidate(p, seen, todo, b)
      BY <1>3, <2>1
    <2>3. PICK r \in Locals : go' = [go EXCEPT ![p] = r] /\ OnTheWay(r, seen, b)
      BY <1>1, <1>4, <2>2, ToCandidateIs
    <2> QED  BY <2>1, <2>3
  <1>7. InHand(r) /\ \A i : ~WillShow(go[p], i)
    BY <1>0, <1>1, <1>5, <1>6, HasInHand DEF InHand, WillShow, OnTheWay
  <1> QED  BY <1>0, <1>1, <1>6, <1>7, QuietMoves DEF OnTheWay

LEMMA ReinforceKeeps ==
  ASSUME MemInv, NEW p \in Procs, Reinforce(p)
  PROVE  MemInv'
  <1>0. /\ go[p] \in Locals /\ InHand(go[p]) /\ go[p].pc = "candidate"
        /\ UNCHANGED <<facts, suggestions, profile, history>>
    BY HasInHand DEF Reinforce
  <1>1. go[p].sug = 0 /\ go[p].todo # <<>> /\ go[p].seen \subseteq Stored
    BY <1>0, HasInHand DEF InHand
  <1>2. Tail(go[p].todo) \in Seq(Candidate)
    BY <1>1, HasInHand, HeadTailProperties
  <1>3. PICK seen \in SUBSET Nat, todo \in Seq(Candidate), b \in BOOLEAN :
          seen = go[p].seen /\ b = TRUE /\ ToCandidate(p, seen, todo, b)
    BY <1>2, HasInHand DEF Reinforce, NextCandidate
  <1>4. PICK r \in Locals : go' = [go EXCEPT ![p] = r] /\ OnTheWay(r, seen, b)
    BY <1>1, <1>3, ToCandidateIs
  <1>5. InHand(r) /\ \A i : WillShow(r, i)
    BY <1>0, <1>1, <1>3, <1>4, HasInHand DEF InHand, WillShow, OnTheWay
  <1> QED  BY <1>0, <1>1, <1>4, <1>5, QuietMoves DEF OnTheWay

\* A finite set of facts has an oldest and a newest one.
LEMMA MinIsOld ==
  ASSUME NEW S \in SUBSET Nat, S # {}
  PROVE  Min(S) \in S /\ \A y \in S : Min(S) <= y
  <1>1. PICK x \in S : \A y \in S : <<y, x>> \notin OpToRel(<, Nat)
    BY NatLessThanWellFounded, WFMin
  <1>2. \A y \in S : x <= y
    <2> SUFFICES ASSUME NEW y \in S PROVE ~(y < x)
      OBVIOUS
    <2>1. <<y, x>> \notin {ss \in Nat \X Nat : ss[1] < ss[2]}
      BY <1>1 DEF OpToRel
    <2> QED  BY <2>1
  <1> QED  BY <1>1, <1>2 DEF Min

LEMMA MaxIsNew ==
  ASSUME NEW n \in Nat, NEW S \in SUBSET (1..n), S # {}
  PROVE  Max(S) \in S
  <1> DEFINE T == {d \in Nat : n - d \in S}
  <1>1. T # {}
    <2>1. PICK x \in S : TRUE
      OBVIOUS
    <2>2. n - x \in Nat /\ n - (n - x) = x
      OBVIOUS
    <2> QED  BY <2>2
  <1>2. Min(T) \in T /\ \A d \in T : Min(T) <= d
    BY <1>1, MinIsOld
  <1> HIDE DEF T
  <1>3. PICK t \in Nat : t = Min(T) /\ n - t \in S /\ \A d \in T : t <= d
    BY <1>2 DEF T
  <1>4. ASSUME NEW y \in S PROVE n - t >= y
    <2>1. n - y \in Nat /\ n - (n - y) = y
      OBVIOUS
    <2>2. n - y \in T
      BY <2>1 DEF T
    <2> QED  BY <1>3, <2>1, <2>2
  <1> QED  BY <1>3, <1>4 DEF Max

LEMMA MatchIs ==
  ASSUME MemInv, NEW p \in Procs, NEW c
  PROVE  Match(p, c) \in Nat
  <1>1. /\ Len(facts) \in Nat /\ go[p].seen \in SUBSET (1..Len(facts)) /\ go[p].seen \in SUBSET Nat
    BY HasInHand DEF InHand, Stored
  <1>2. Deciding(p, c) \in SUBSET (1..Len(facts)) /\ Deciding(p, c) \in SUBSET Nat
    BY <1>1 DEF Deciding
  <1>3. CASE Deciding(p, c) # {}
    <2>1. Max(Deciding(p, c)) \in Deciding(p, c)
      BY <1>1, <1>2, <1>3, MaxIsNew
    <2> QED  BY <1>2, <1>3, <2>1 DEF Match
  <1>4. CASE Deciding(p, c) = {} /\ go[p].seen # {}
    <2>1. Min(go[p].seen) \in go[p].seen
      BY <1>1, <1>4, MinIsOld
    <2> QED  BY <1>1, <1>4, <2>1 DEF Match
  <1> QED  BY <1>3, <1>4 DEF Match

LEMMA ActivateKeeps ==
  ASSUME MemInv, NEW p \in Procs, Activate(p)
  PROVE  MemInv'
  <1>0. /\ go[p] \in Locals /\ InHand(go[p]) /\ go[p].pc = "candidate"
        /\ UNCHANGED <<facts, suggestions, profile, history>>
    BY HasInHand DEF Activate
  <1>1. go[p].sug = 0 /\ go[p].todo # <<>> /\ go[p].op = "extract"
    BY <1>0, HasInHand DEF InHand
  <1> DEFINE c == Head(go[p].todo)
  <1>2. c \in Candidate
    BY <1>1, HasInHand, HeadTailProperties
  <1>3. PICK old \in Nat, text \in TextOrNone, b \in BOOLEAN, pc \in {"supersede", "insert"} :
          /\ old = Match(p, c) /\ text = c.text /\ b = c.sensitive
          /\ pc = IF Match(p, c) = 0 THEN "insert" ELSE "supersede"
    <2>1. Match(p, c) \in Nat
      BY MatchIs
    <2>2. c.text \in TextOrNone /\ c.sensitive \in BOOLEAN
      BY <1>2 DEF Candidate, TextOrNone
    <2> QED  BY <2>1, <2>2
  <1> DEFINE r == [go[p] EXCEPT !.pc = pc, !.fact = old, !.text = text, !.sensitive = b]
  <1>4. /\ r \in Locals /\ r.pc = pc /\ r.sug = go[p].sug /\ r.activated = go[p].activated
        /\ r.seen = go[p].seen /\ r.op = go[p].op /\ r.todo = go[p].todo
    BY <1>0 DEF Locals, Pcs
  <1>5. go' = [go EXCEPT ![p] = r]
    BY <1>3 DEF Activate
  <1> HIDE DEF r
  <1>6. InHand(r)
    BY <1>0, <1>1, <1>4, HasInHand DEF InHand
  <1>7. \A i : WillShow(go[p], i) => WillShow(r, i)
    BY <1>0, <1>4 DEF WillShow
  <1> QED  BY <1>0, <1>1, <1>4, <1>5, <1>6, <1>7, QuietMoves

-----------------------------------------------------------------------------
(* The steps that change a fact *)

LEMMA FactMoves ==
  ASSUME MemInv, NEW p \in Procs, NEW r \in Locals, Moves(p, r), NEW i \in Nat, Changed(i),
         UNCHANGED <<suggestions, profile, contested, cut, orphaned, raced>>,
         unprojected \subseteq unprojected', unprojected' \in SUBSET Nat,
         InHand(r), go[p].pc # "insert", r.sug \in {0, go[p].sug},
         go[p].sug # 0 /\ Standing(go[p]) => IF r.sug = go[p].sug THEN Standing(r) ELSE Kept(go[p].sug),
         i \in Stored /\ facts'[i].status = "superseded" =>
           facts[i].status = "superseded" \/ (r.pc = "insert" /\ r.fact = i),
         i \in Stored \ unprojected' => WillShow(r, i)' \/ ((i \in Active' <=> i \in Active) /\ ~WillShow(go[p], i)),
         \A j \in Stored : WillShow(go[p], j) => WillShow(r, j),
         r.pc = "upsert" => r = go[p]
  PROVE  MemInv'
  <1>1. MemTypeOK /\ Control /\ SupersededHasHeir /\ Decided /\ Shown
    BY DEF MemInv
  <1>2. /\ Stored' = Stored /\ \A s \in Nat : Made(s)' = Made(s)
        /\ \A j \in Stored : j # i => (j \in Active' <=> j \in Active)
        /\ Len(suggestions) \in Nat /\ go[p].sug \in 0 .. Len(suggestions)
    BY <1>1, HasInHand, ChangedKeeps DEF Changed
  <1>3. MemTypeOK'
    BY <1>1, <1>2 DEF MemTypeOK, Moves, Changed
  <1>4. Control'
    <2>1. InHand(r)'
      BY <1>2 DEF InHand
    <2>2. \A j \in Stored' : facts'[j].from \in 0 .. Len(suggestions')
      BY <1>1, <1>2 DEF Control, Changed
    <2> QED  BY <1>1, <1>2, <2>1, <2>2, ControlMoves DEF Control
  <1>5. SupersededHasHeir'
    <2>1. \A j \in Stored : facts'[j].supersedes = facts[j].supersedes /\ (j # i => facts'[j] = facts[j])
      BY DEF Changed
    <2>2. \A j \in Stored' : facts'[j].status = "superseded" =>
            \/ j \in Stored /\ facts[j].status = "superseded"
            \/ r.pc = "insert" /\ r.fact = j
      BY <1>2, <2>1
    <2> QED  BY <1>1, <1>2, <2>1, <2>2, HeirMoves
  <1>6. Decided'
    <2>1. PICK s \in 0 .. Len(suggestions) : s = go[p].sug
      BY <1>2
    <2>2. Made(s)' = Made(s) /\ suggestions'[s].status = suggestions[s].status
      BY <1>2
    <2>3. Kept(s) => Kept(s)'
      BY <2>2, Unmoved
    <2>4. r.sug = s /\ Standing(r) => Standing(r)'
      BY <2>2, Unmoved
    <2>5. s # 0 /\ Standing(go[p]) => IF r.sug = s THEN Standing(r)' ELSE Kept(s)'
      BY <2>1, <2>3, <2>4
    <2>6. \A u \in 1 .. Len(suggestions') : u # s =>
            /\ u \in 1 .. Len(suggestions)
            /\ Made(u)' = Made(u) /\ suggestions'[u].status = suggestions[u].status
      BY <1>2
    <2> QED  BY <1>1, <1>2, <2>1, <2>5, <2>6, DecidedMoves
  <1>7. Shown'
    <2>1. \A j \in Stored : j # i => (WillShow(r, j) => WillShow(r, j)')
      BY <1>2 DEF WillShow
    <2>2. \A j \in Stored' \ unprojected' :
           \/ WillShow(r, j)'
           \/ /\ j \in Stored \ unprojected /\ (j \in Active' <=> j \in Active)
              /\ WillShow(go[p], j) => WillShow(r, j)'
      BY <1>2, <2>1
    <2> QED  BY <1>1, <2>2, ShownMoves
  <1> QED  BY <1>3, <1>4, <1>5, <1>6, <1>7 DEF MemInv

LEMMA PatchItemKeeps ==
  ASSUME MemInv, NEW p \in Procs, PatchItem(p)
  PROVE  MemInv'
  <1>1. PICK i \in Stored, status \in {"active", "pending_review", "rejected"} :
          Reviewed(i, status) /\ unprojected' = unprojected \cup {i}
    BY DEF PatchItem
  <1>2. /\ go[p] \in Locals /\ InHand(go[p]) /\ go[p].pc = "idle" /\ MemTypeOK
        /\ UNCHANGED <<suggestions, profile, go, contested, cut, orphaned, raced>>
    BY HasInHand DEF PatchItem
  <1>3. i \in Nat /\ unprojected' \in SUBSET Nat
    BY <1>1, <1>2, MemTypes DEF MemTypeOK
  <1>4. Changed(i) /\ facts'[i].status = status
    <2>1. PICK on \in BOOLEAN : on = (status = "active")
      OBVIOUS
    <2>2. facts' = [facts EXCEPT ![i].on = on, ![i].status = status]
      BY <1>1, <2>1 DEF Reviewed
    <2> QED  BY <1>2, <1>3, <2>2, RowChanges
  <1>5. PICK r \in Locals : r = go[p]
    BY <1>2
  <1>6. Moves(p, r) /\ InHand(r)
    BY <1>2, <1>5 DEF Moves, MemTypeOK
  <1>7. go[p].sug = 0
    BY <1>2 DEF InHand
  <1> QED  BY <1>1, <1>2, <1>3, <1>4, <1>5, <1>6, <1>7, FactMoves

LEMMA SetStatusKeeps ==
  ASSUME MemInv, NEW p \in Procs, SetStatus(p)
  PROVE  MemInv'
  <1>1. /\ go[p] \in Locals /\ InHand(go[p]) /\ go[p].pc = "set" /\ MemTypeOK
        /\ UNCHANGED <<suggestions, profile, contested, cut, orphaned, raced>>
    BY HasInHand DEF SetStatus
  <1>2. PICK i \in Nat, status \in {"active", "outdated", "rejected"} :
          i = go[p].fact /\ status = StatusFor(go[p].op) /\ Reviewed(i, status)
    BY HasInHand DEF SetStatus, StatusFor
  <1>3. Changed(i) /\ (i \in Stored => facts'[i].status = status /\ facts'[i].on = (status = "active"))
    <2>1. PICK on \in BOOLEAN : on = (status = "active")
      OBVIOUS
    <2>2. facts' = [facts EXCEPT ![i].on = on, ![i].status = status]
      BY <1>2, <2>1 DEF Reviewed
    <2> QED  BY <1>1, <2>1, <2>2, RowChanges
  <1>4. go[p].sug = 0 /\ ~go[p].activated
    BY <1>1 DEF InHand
  <1>5. \A j : ~WillShow(go[p], j)
    BY <1>1, <1>4 DEF WillShow
  <1>6. CASE go[p].op = "keep"
    <2>1. go' = [go EXCEPT ![p] = Idle] /\ unprojected' = unprojected \cup ({i} \cap Active)
      BY <1>2, <1>6 DEF SetStatus, Ends
    <2>2. Moves(p, Idle) /\ InHand(Idle) /\ unprojected' \in SUBSET Nat
      BY <1>1, <2>1, IdleIs, GoMoves, HasInHand DEF InHand, MemTypeOK
    <2>3. status = "rejected"
      BY <1>2, <1>6 DEF StatusFor
    <2>4. i \in Stored \ unprojected' => (i \in Active' <=> i \in Active)
      BY <1>3, <2>1, <2>3 DEF Active
    <2> QED  BY <1>1, <1>3, <1>4, <1>5, <2>1, <2>2, <2>3, <2>4, IdleIs, FactMoves
  <1>7. CASE go[p].op # "keep"
    <2>1. go' = [go EXCEPT ![p] = ListRow(0)] /\ unprojected' = unprojected
      BY <1>4, <1>7 DEF SetStatus, ToList, ListRow
    <2>2. PICK r \in Locals : r = ListRow(0) /\ r.pc = "list" /\ r.sug = 0 /\ r.seen = {} /\ r.activated = FALSE
      <3>1. 0 \in Nat
        OBVIOUS
      <3> QED  BY <3>1, ListRowIs
    <2>3. Moves(p, r) /\ InHand(r) /\ unprojected' \in SUBSET Nat
      BY <1>1, <2>1, <2>2, GoMoves, HasInHand DEF InHand, MemTypeOK
    <2>4. \A j : WillShow(r, j) /\ WillShow(r, j)'
      BY <2>2 DEF WillShow
    <2> QED  BY <1>1, <1>3, <1>4, <1>5, <2>1, <2>2, <2>3, <2>4, FactMoves
  <1> QED  BY <1>6, <1>7

LEMMA SupersedeKeeps ==
  ASSUME MemInv, NEW p \in Procs, Supersede(p)
  PROVE  MemInv'
  <1>1. /\ go[p] \in Locals /\ InHand(go[p]) /\ go[p].pc = "supersede" /\ MemTypeOK
        /\ UNCHANGED <<suggestions, profile, contested, cut, orphaned, raced>>
        /\ unprojected' = unprojected
    BY HasInHand DEF Supersede, history
  <1>2. PICK i \in Nat : i = go[p].fact /\ Superseded(i)
    BY HasInHand DEF Supersede
  <1>3. Changed(i)
    <2>1. FALSE \in BOOLEAN /\ facts' = [facts EXCEPT ![i].on = FALSE, ![i].status = "superseded"]
      BY <1>2 DEF Superseded
    <2> QED  BY <1>1, <2>1, RowChanges
  <1> DEFINE r == [go[p] EXCEPT !.pc = "insert"]
  <1>4. /\ r \in Locals /\ r.pc = "insert" /\ r.sug = go[p].sug /\ r.activated = go[p].activated
        /\ r.seen = go[p].seen /\ r.op = go[p].op /\ r.todo = go[p].todo /\ r.fact = i
    BY <1>1, <1>2 DEF Locals, Pcs
  <1>5. go' = [go EXCEPT ![p] = r]
    BY DEF Supersede, Goto
  <1> HIDE DEF r
  <1>6. PICK x \in Locals : x = r
    BY <1>4
  <1>7. Moves(p, x) /\ InHand(x) /\ unprojected' \in SUBSET Nat
    BY <1>1, <1>4, <1>5, <1>6, GoMoves, HasInHand DEF InHand, MemTypeOK
  <1>8. \A j : WillShow(x, j) /\ WillShow(x, j)'
    BY <1>1, <1>4, <1>6 DEF WillShow, InHand, Projects
  <1>9. Standing(go[p]) => Standing(x)
    BY <1>1, <1>4, <1>6 DEF Standing
  <1> QED  BY <1>1, <1>3, <1>4, <1>6, <1>7, <1>8, <1>9, FactMoves

LEMMA DeactivateKeeps ==
  ASSUME MemInv, NEW p \in Procs, Deactivate(p)
  PROVE  MemInv'
  <1>1. /\ go[p] \in Locals /\ InHand(go[p]) /\ go[p].pc = "deactivate" /\ MemTypeOK
        /\ UNCHANGED <<suggestions, profile, contested, cut, orphaned, raced>>
    BY HasInHand DEF Deactivate
  <1>2. PICK i \in Nat : i = go[p].fact /\ Deactivated(i) /\ unprojected' = unprojected \cup {i}
    BY HasInHand DEF Deactivate
  <1>3. Changed(i) /\ (i \in Stored => facts'[i].status = facts[i].status)
    BY <1>1, <1>2, RowDeactivated
  <1>4. go[p].sug = 0 /\ ~go[p].activated
    BY <1>1 DEF InHand
  <1>5. (\A j : ~WillShow(go[p], j)) /\ unprojected' \in SUBSET Nat
    BY <1>1, <1>2, <1>4 DEF WillShow, MemTypeOK
  <1>6. CASE go' = [go EXCEPT ![p] = Idle]
    <2>1. Moves(p, Idle) /\ InHand(Idle)
      BY <1>1, <1>6, IdleIs, GoMoves, HasInHand DEF InHand
    <2> QED  BY <1>1, <1>2, <1>3, <1>4, <1>5, <2>1, IdleIs, FactMoves
  <1>7. CASE go' = [go EXCEPT ![p].pc = "insert"]
    <2> DEFINE r == [go[p] EXCEPT !.pc = "insert"]
    <2>1. /\ r \in Locals /\ r.pc = "insert" /\ r.sug = go[p].sug /\ r.activated = go[p].activated
          /\ r.seen = go[p].seen /\ r.op = go[p].op /\ r.todo = go[p].todo
      BY <1>1 DEF Locals, Pcs
    <2>2. go' = [go EXCEPT ![p] = r]
      BY <1>7
    <2> HIDE DEF r
    <2>3. PICK x \in Locals : x = r
      BY <2>1
    <2>4. go[p].op # "extract"
      BY <1>1 DEF InHand
    <2>5. Moves(p, x) /\ InHand(x)
      BY <1>1, <1>4, <2>1, <2>2, <2>3, <2>4, GoMoves, HasInHand DEF InHand
    <2> QED  BY <1>1, <1>2, <1>3, <1>4, <1>5, <2>1, <2>3, <2>5, FactMoves
  <1> QED  BY <1>6, <1>7 DEF Deactivate, Ends, Goto

-----------------------------------------------------------------------------
(* The steps that leave the facts and the suggestions alone, but not the rest *)

LEMMA FactsStand ==
  ASSUME UNCHANGED facts
  PROVE  Stored' = Stored /\ Active' = Active /\ \A s : Made(s)' = Made(s)
  BY DEF Stored, Active, Made

LEMMA StandMoves ==
  ASSUME MemInv, NEW p \in Procs, NEW r \in Locals, Moves(p, r), UNCHANGED <<facts, suggestions>>,
         profile' \in ProfileRow, profile'.shows \subseteq Stored, raced' \in BOOLEAN, unprojected' \in SUBSET Nat,
         InHand(r), orphaned \subseteq orphaned',
         go[p].pc = "insert" => go[p].fact \in orphaned' \/ go[p].fact \notin Stored,
         contested \cup cut \subseteq contested' \cup cut', r.sug \in {0, go[p].sug},
         go[p].sug # 0 /\ go[p].sug \notin contested' \cup cut' /\ Standing(go[p]) =>
           IF r.sug = go[p].sug THEN Standing(r) ELSE Kept(go[p].sug),
         Shown'
  PROVE  MemInv'
  <1>1. MemTypeOK /\ Control /\ SupersededHasHeir /\ Decided
    BY DEF MemInv
  <1>2. /\ Stored' = Stored /\ Active' = Active /\ \A s : Made(s)' = Made(s)
        /\ Len(suggestions) \in Nat /\ go[p].sug \in 0 .. Len(suggestions)
    BY <1>1, HasInHand, FactsStand
  <1>3. MemTypeOK'
    BY <1>1 DEF MemTypeOK, Moves
  <1>4. Control'
    <2>1. InHand(r)'
      BY <1>2 DEF InHand
    <2> QED  BY <1>1, <1>2, <2>1, ControlMoves DEF Control
  <1>5. SupersededHasHeir'
    BY <1>1, <1>2, HeirMoves
  <1>6. Decided'
    <2>1. PICK s \in 0 .. Len(suggestions) : s = go[p].sug
      BY <1>2
    <2>2. Made(s)' = Made(s) /\ suggestions'[s].status = suggestions[s].status
      BY <1>2
    <2>3. Kept(s) => Kept(s)'
      BY <2>2, Unmoved
    <2>4. r.sug = s /\ Standing(r) => Standing(r)'
      BY <2>2, Unmoved
    <2>5. s # 0 /\ s \notin contested' \cup cut' /\ Standing(go[p]) => IF r.sug = s THEN Standing(r)' ELSE Kept(s)'
      BY <2>1, <2>3, <2>4
    <2>6. \A u \in 1 .. Len(suggestions') : u # s =>
            /\ u \in 1 .. Len(suggestions)
            /\ Made(u)' = Made(u) /\ suggestions'[u].status = suggestions[u].status
      BY <1>2
    <2> QED  BY <1>1, <1>2, <2>1, <2>5, <2>6, DecidedMoves
  <1> QED  BY <1>3, <1>4, <1>5, <1>6 DEF MemInv

\* A summary that is not a projection promises nothing of the facts.
LEMMA OverwriteMoves ==
  ASSUME MemInv, NEW p \in Procs, NEW r \in Locals, Moves(p, r), UNCHANGED <<facts, suggestions, history>>,
         NEW by \in {"user", "compiler"}, profile' = [by |-> by, shows |-> {}],
         InHand(r), go[p].pc # "insert", go[p].sug = 0, r.sug = 0, \A i : ~WillShow(go[p], i),
         r.pc = "upsert" => r = go[p]
  PROVE  MemInv'
  <1>1. /\ Stored' = Stored /\ Active' = Active /\ MemTypeOK /\ Shown
        /\ contested' = contested /\ cut' = cut /\ orphaned' = orphaned /\ raced' = raced /\ unprojected' = unprojected
    BY FactsStand DEF MemInv, history
  <1>2. Shown'
    <2>1. profile'.by # "projection"
      OBVIOUS
    <2> QED  BY <1>1, <2>1, ShownMoves
  <1>3. profile' \in ProfileRow /\ profile'.shows \subseteq Stored /\ raced' \in BOOLEAN /\ unprojected' \in SUBSET Nat
    BY <1>1 DEF ProfileRow, MemTypeOK
  <1> QED  BY <1>1, <1>2, <1>3, StandMoves

LEMMA UpdateProfileKeeps ==
  ASSUME MemInv, NEW p \in Procs, UpdateProfile(p)
  PROVE  MemInv'
  <1>1. /\ go[p] \in Locals /\ InHand(go[p]) /\ go[p].pc = "idle" /\ MemTypeOK
        /\ UNCHANGED <<facts, suggestions, go, history>>
        /\ profile' = [by |-> "user", shows |-> {}]
    BY HasInHand DEF UpdateProfile
  <1>2. go[p].sug = 0 /\ ~go[p].activated
    BY <1>1 DEF InHand
  <1>3. PICK r \in Locals, by \in {"user", "compiler"} : r = go[p] /\ by = "user"
    BY <1>1
  <1>4. Moves(p, r) /\ InHand(r) /\ \A i : ~WillShow(go[p], i)
    BY <1>1, <1>2, <1>3 DEF Moves, MemTypeOK, WillShow
  <1> QED  BY <1>1, <1>2, <1>3, <1>4, OverwriteMoves

LEMMA WriteSummaryKeeps ==
  ASSUME MemInv, NEW p \in Procs, WriteSummary(p)
  PROVE  MemInv'
  <1>1. /\ go[p] \in Locals /\ InHand(go[p]) /\ go[p].pc = "summary" /\ MemTypeOK
        /\ UNCHANGED <<facts, suggestions, history>>
        /\ profile' = [by |-> "compiler", shows |-> {}]
    BY HasInHand DEF WriteSummary
  <1>2. go[p].sug = 0 /\ ~go[p].activated /\ go[p].op # "extract"
    BY <1>1 DEF InHand
  <1>3. PICK by \in {"user", "compiler"} : by = "compiler"
    OBVIOUS
  <1>4. \A i : ~WillShow(go[p], i)
    BY <1>1, <1>2 DEF WillShow
  <1>5. CASE go' = [go EXCEPT ![p] = Idle]
    <2>1. Moves(p, Idle) /\ InHand(Idle)
      BY <1>1, <1>5, IdleIs, GoMoves, HasInHand DEF InHand
    <2> QED  BY <1>1, <1>2, <1>3, <1>4, <2>1, IdleIs, OverwriteMoves
  <1>6. CASE Goto(p, ToChange(go[p].fact))
    <2>1. PICK pc \in {"insert", "deactivate"} : pc = ToChange(go[p].fact)
      BY DEF ToChange
    <2> DEFINE r == [go[p] EXCEPT !.pc = pc]
    <2>2. /\ r \in Locals /\ r.pc = pc /\ r.sug = go[p].sug /\ r.activated = go[p].activated
          /\ r.seen = go[p].seen /\ r.op = go[p].op /\ r.todo = go[p].todo
      BY <1>1 DEF Locals, Pcs
    <2>3. go' = [go EXCEPT ![p] = r]
      BY <1>6, <2>1 DEF Goto
    <2> HIDE DEF r
    <2>4. PICK x \in Locals : x = r
      BY <2>2
    <2>5. Moves(p, x) /\ InHand(x)
      BY <1>1, <1>2, <2>2, <2>3, <2>4, GoMoves, HasInHand DEF InHand
    <2> QED  BY <1>1, <1>2, <1>3, <1>4, <2>2, <2>4, <2>5, OverwriteMoves
  <1> QED  BY <1>5, <1>6 DEF WriteSummary, Ends

\* What is cut off is on record, or it had nothing to leave undone.
LEMMA CutMoves ==
  ASSUME MemInv, NEW p \in Procs, NEW r \in Locals, go' = [go EXCEPT ![p] = r], LeavesUndone(p),
         UNCHANGED <<facts, suggestions, profile, contested, raced>>,
         r.pc \in {"idle", "existing"}, r.sug = 0, r.seen = {}, ~r.activated
  PROVE  MemInv'
  <1>1. /\ MemTypeOK /\ Control /\ Shown /\ Moves(p, r) /\ InHand(go[p]) /\ go[p].fact \in Nat
        /\ Stored' = Stored /\ Active' = Active
    BY GoMoves, HasInHand, FactsStand
  <1>2. InHand(r)
    BY HasInHand DEF InHand
  <1>3. orphaned \subseteq orphaned' /\ (go[p].pc = "insert" => go[p].fact \in orphaned' \/ go[p].fact \notin Stored)
    BY <1>1, HasInHand DEF LeavesUndone, Stored
  <1>4. /\ contested \cup cut \subseteq contested' \cup cut'
        /\ go[p].pc = "close" => go[p].sug \in cut'
    BY DEF LeavesUndone
  <1>5. go[p].sug # 0 /\ go[p].sug \notin contested' \cup cut' /\ Standing(go[p]) => Kept(go[p].sug)
    BY <1>1, <1>4 DEF InHand, Standing, Kept
  <1>6. profile' \in ProfileRow /\ profile'.shows \subseteq Stored /\ raced' \in BOOLEAN /\ unprojected' \in SUBSET Nat
    BY <1>1, MemTypes DEF MemTypeOK, Control, LeavesUndone
  <1>7. Shown'
    <2>1. CASE AtWork(p)
      <3>1. Stored' \ unprojected' = {}
        BY <1>1, <2>1 DEF LeavesUndone
      <3> QED  BY <3>1 DEF Shown
    <2>2. CASE ~AtWork(p)
      <3>1. unprojected' = unprojected /\ \A i : ~WillShow(go[p], i)
        BY <2>2 DEF LeavesUndone, AtWork, WillShow
      <3> QED  BY <1>1, <3>1, ShownMoves
    <2> QED  BY <2>1, <2>2
  <1> QED  BY <1>1, <1>2, <1>3, <1>4, <1>5, <1>6, <1>7, StandMoves

LEMMA CutOffKeeps ==
  ASSUME MemInv, NEW p \in Procs, CutOff(p)
  PROVE  MemInv'
  BY IdleIs, CutMoves DEF CutOff, Ends

LEMMA JobRetriedKeeps ==
  ASSUME MemInv, NEW p \in Procs, JobRetried(p)
  PROVE  MemInv'
  <1> DEFINE r == [Idle EXCEPT !.pc = "existing", !.op = "extract"]
  <1>1. "existing" \in Pcs /\ "extract" \in Ops
    BY DEF Pcs, Ops
  <1>2. r \in Locals
    BY <1>1, StartRowIs DEF TextOrNone
  <1>3. r.pc = "existing" /\ r.sug = 0 /\ r.seen = {} /\ ~r.activated
    BY DEF Idle
  <1>4. go' = [go EXCEPT ![p] = r]
    BY DEF JobRetried
  <1> HIDE DEF r
  <1> QED  BY <1>2, <1>3, <1>4, CutMoves DEF JobRetried

\* A projection is written: it is right of a fact, or it was changed since without
\* one, or somebody else is at work on it - unless it has overtaken a later list.
LEMMA UpsertProfileKeeps ==
  ASSUME MemInv, NEW p \in Procs, UpsertProfile(p)
  PROVE  MemInv'
  <1>1. /\ go[p] \in Locals /\ InHand(go[p]) /\ go[p].pc = "upsert" /\ MemTypeOK /\ Control /\ Shown
        /\ UNCHANGED <<facts, suggestions, contested, cut, orphaned>>
        /\ go' = [go EXCEPT ![p] = Idle]
    BY HasInHand DEF UpsertProfile, Ends
  <1>2. Moves(p, Idle) /\ InHand(Idle) /\ Stored' = Stored /\ Active' = Active
    <2>1. Moves(p, Idle)
      BY <1>1, IdleIs, GoMoves
    <2>2. InHand(Idle)
      BY IdleIs, HasInHand DEF InHand
    <2>3. Stored' = Stored /\ Active' = Active
      BY <1>1, FactsStand
    <2> QED  BY <2>1, <2>2, <2>3
  <1>3. go[p].seen \in SUBSET Nat /\ go[p].seen \subseteq Stored /\ ~go[p].activated
    BY <1>1, HasInHand DEF InHand
  <1>4. profile' \in ProfileRow /\ profile'.shows \subseteq Stored /\ unprojected' \in SUBSET Nat
    BY <1>1, <1>3 DEF UpsertProfile, ProfileRow, MemTypeOK, Control, Unshown
  <1>5. raced' \in BOOLEAN
    BY <1>1 DEF UpsertProfile, MemTypeOK, Overtakes
  <1>6. Standing(go[p]) => Kept(go[p].sug)
    BY <1>1 DEF Standing, Kept
  <1>7. Shown'
    <2> SUFFICES ASSUME ~raced', NEW i \in Stored \ unprojected'
                 PROVE  /\ profile'.by = "projection" => (i \in profile'.shows <=> i \in Active) \/ Covered(i)'
                        /\ \A q \in Procs : go'[q].pc = "upsert" => (i \in go'[q].seen <=> i \in Active) \/ Covered(i)'
      BY <1>2 DEF Shown
    <2>1. ~raced /\ \A q \in Procs \ {p} : go[q].pc = "upsert" => go[q].seen \in {Active, go[p].seen}
      BY DEF UpsertProfile, Overtakes
    <2>2. ASSUME Covered(i), ~(i \in go[p].seen <=> i \in Active) PROVE Covered(i)'
      <3>1. PICK q \in Procs : WillShow(go[q], i)
        BY <2>2 DEF Covered
      <3>2. q # p
        BY <1>1, <1>3, <2>2, <3>1 DEF WillShow
      <3> QED  BY <1>2, <3>1, <3>2 DEF Covered, Moves, WillShow
    <2>3. (i \in go[p].seen <=> i \in Active) \/ Covered(i)'
      <3>1. CASE i \in unprojected
        BY <3>1 DEF UpsertProfile, Unshown
      <3>2. CASE i \notin unprojected
        BY <1>1, <2>1, <2>2, <3>2 DEF Shown
      <3> QED  BY <3>1, <3>2
    <2>4. ASSUME NEW q \in Procs, go'[q].pc = "upsert"
          PROVE  (i \in go'[q].seen <=> i \in Active) \/ Covered(i)'
      <3>1. q # p /\ go'[q] = go[q]
        BY <1>2, <2>4, IdleIs DEF Moves
      <3> QED  BY <2>1, <2>3, <2>4, <3>1
    <2>5. profile'.by = "projection" => (i \in profile'.shows <=> i \in Active) \/ Covered(i)'
      <3>1. CASE go[p].seen = {}
        <4>1. i \notin unprojected /\ i \notin profile.shows /\ profile' = profile
          BY <3>1 DEF UpsertProfile, Unshown
        <4> QED  BY <2>3, <3>1, <4>1
      <3>2. CASE go[p].seen # {}
        BY <2>3, <3>2 DEF UpsertProfile
      <3> QED  BY <3>1, <3>2
    <2> QED  BY <2>4, <2>5
  <1> QED  BY <1>1, <1>2, <1>4, <1>5, <1>6, <1>7, IdleIs, StandMoves

-----------------------------------------------------------------------------
(* The steps that make and decide suggestions, and the insert *)

LEMMA StartDecisionKeeps ==
  ASSUME MemInv, NEW p \in Procs, StartDecision(p)
  PROVE  MemInv'
  <1>1. PICK op \in {"acceptSug", "rejectSug"}, s \in 1..Len(suggestions) :
          /\ Starts(p, [Idle EXCEPT !.pc = "getSug", !.op = op, !.sug = s])
          /\ contested' = contested \cup {x \in {s} : \E q \in Procs \ {p} : go[q].sug = s}
    BY DEF StartDecision
  <1>2. /\ go[p] \in Locals /\ InHand(go[p]) /\ go[p].pc = "idle"
        /\ MemTypeOK /\ Control /\ SupersededHasHeir /\ Decided /\ Shown
        /\ UNCHANGED <<facts, suggestions, profile, cut, orphaned, raced, unprojected>>
    BY <1>1, HasInHand DEF StartDecision, Starts
  <1>3. go[p].sug = 0 /\ ~go[p].activated /\ Len(suggestions) \in Nat /\ s \in Nat
    BY <1>2, HasInHand DEF InHand
  <1> DEFINE r == [Idle EXCEPT !.pc = "getSug", !.op = op, !.sug = s]
  <1>4. "getSug" \in Pcs /\ op \in Ops /\ op # "extract" /\ NoText \in TextOrNone /\ <<>> \in Seq(Candidate)
    BY EmptySeq DEF Pcs, Ops, TextOrNone
  <1>5. /\ r \in Locals /\ r.pc = "getSug" /\ r.op = op /\ r.sug = s /\ r.seen = {} /\ ~r.activated
    BY <1>3, <1>4 DEF Idle, Locals
  <1>6. go' = [go EXCEPT ![p] = r]
    BY <1>1 DEF Starts
  <1> HIDE DEF r
  <1>7. PICK x \in Locals : x = r
    BY <1>5
  <1>8. Moves(p, x) /\ InHand(x) /\ \A i : ~WillShow(go[p], i)
    <2>1. Moves(p, x)
      BY <1>2, <1>6, <1>7, GoMoves
    <2>2. InHand(x)
      BY <1>3, <1>4, <1>5, <1>7 DEF InHand
    <2>3. \A i : ~WillShow(go[p], i)
      BY <1>2, <1>3 DEF WillShow
    <2> QED  BY <2>1, <2>2, <2>3
  <1>9. Stored' = Stored /\ Active' = Active /\ \A t : Made(t)' = Made(t)
    BY <1>2, FactsStand
  <1>10. MemTypeOK'
    BY <1>2, <1>8 DEF MemTypeOK, Moves
  <1>11. Control'
    <2>1. InHand(x)'
      BY <1>2, <1>8, <1>9 DEF InHand
    <2> QED  BY <1>2, <1>3, <1>8, <1>9, <2>1, ControlMoves DEF Control
  <1>12. SupersededHasHeir'
    BY <1>2, <1>8, <1>9, HeirMoves
  <1>13. Decided'
    <2> SUFFICES ASSUME NEW t \in 1 .. Len(suggestions), t \notin contested' \cup cut
                 PROVE  /\ \A q1, q2 \in Procs : go'[q1].sug = t /\ go'[q2].sug = t => q1 = q2
                        /\ Undecided(t)' => Kept(t)'
                        /\ \A q \in Procs : go'[q].sug = t => Standing(go[q])'
      BY <1>2 DEF Decided
    <2>1. t \notin contested \cup cut /\ t # 0 /\ Made(t)' = Made(t) /\ suggestions'[t].status = suggestions[t].status
      BY <1>1, <1>2, <1>3, <1>9
    <2>2. Kept(t) => Kept(t)'
      BY <2>1, Unmoved
    <2>3. CASE t = s
      <3>1. \A q \in Procs : q # p => go[q].sug # s
        BY <1>1, <2>3
      <3>2. Undecided(t) /\ \A q \in Procs : q # p => go'[q].sug # s
        BY <1>3, <1>8, <2>1, <2>3, <3>1 DEF Undecided, Moves
      <3>3. Kept(t)'
        BY <1>2, <2>1, <2>2, <3>2 DEF Decided
      <3>4. Standing(x)'
        BY <1>5, <1>7, <2>3, <3>3 DEF Standing
      <3>5. Standing(go[p])'
        BY <1>8, <3>4 DEF Standing, Moves
      <3> QED  BY <2>3, <3>2, <3>3, <3>5
    <2>4. CASE t # s
      <3>1. \A q \in Procs : go'[q].sug = t => q # p /\ go'[q] = go[q]
        BY <1>5, <1>7, <1>8, <2>4 DEF Moves
      <3>2. Undecided(t)' => Undecided(t)
        BY <1>3, <1>8, <2>1 DEF Undecided, Moves
      <3>3. ASSUME NEW q \in Procs, go'[q].sug = t PROVE Standing(go[q])'
        <4>1. PICK l \in Locals : l = go[q]
          BY <1>2, MemTypes
        <4>2. go'[q] = l /\ Standing(l) /\ l.sug = t
          BY <1>2, <2>1, <3>1, <3>3, <4>1 DEF Decided
        <4>3. Standing(l)'
          BY <2>1, <4>2, Unmoved
        <4> QED  BY <4>2, <4>3 DEF Standing
      <3> QED  BY <1>2, <2>1, <2>2, <3>1, <3>2, <3>3 DEF Decided
    <2> QED  BY <2>3, <2>4
  <1>14. Shown'
    BY <1>2, <1>5, <1>7, <1>8, <1>9, ShownMoves
  <1> QED  BY <1>10, <1>11, <1>12, <1>13, <1>14 DEF MemInv

LEMMA CloseSuggestionKeeps ==
  ASSUME MemInv, NEW p \in Procs, CloseSuggestion(p)
  PROVE  MemInv'
  <1>1. /\ go[p] \in Locals /\ InHand(go[p]) /\ go[p].pc = "close"
        /\ MemTypeOK /\ Control /\ SupersededHasHeir /\ Decided /\ Shown
        /\ UNCHANGED <<facts, profile>>
        /\ UNCHANGED <<contested, cut, orphaned, raced, unprojected>>
        /\ Len(suggestions) \in Nat
    BY HasInHand DEF CloseSuggestion, history
  <1>2. go[p].op \in {"acceptSug", "rejectSug"} /\ ~go[p].activated
    BY <1>1 DEF InHand
  <1>3. PICK d \in 0 .. Len(suggestions), status \in {"accepted", "rejected"} :
          /\ d = go[p].sug /\ status = IF go[p].op = "acceptSug" THEN "accepted" ELSE "rejected"
          /\ suggestions' = [suggestions EXCEPT ![d].status = status]
    BY HasInHand DEF CloseSuggestion
  <1>4. /\ suggestions' \in Seq(SuggestionRow) /\ Len(suggestions') = Len(suggestions)
        /\ \A s \in 1 .. Len(suggestions) : s # d => suggestions'[s] = suggestions[s]
        /\ d # 0 => suggestions'[d].status = status
    <2>1. CASE d # 0
      <3> DEFINE new == [suggestions[d] EXCEPT !.status = status]
      <3>1. d \in 1 .. Len(suggestions) /\ suggestions[d] \in SuggestionRow
        BY <1>1, <2>1, MemTypes
      <3>2. new \in SuggestionRow /\ new.status = status
        BY <3>1 DEF SuggestionRow
      <3>3. suggestions' = [suggestions EXCEPT ![d] = new]
        BY <1>3
      <3> HIDE DEF new
      <3> QED  BY <1>1, <3>1, <3>2, <3>3, ExceptSeq DEF MemTypeOK
    <2>2. CASE d = 0
      <3>1. d \notin DOMAIN suggestions
        BY <1>1, <2>2, LenProperties DEF MemTypeOK
      <3>2. suggestions' = suggestions
        BY <1>1, <1>3, <3>1 DEF MemTypeOK
      <3> QED  BY <1>1, <2>2, <3>2 DEF MemTypeOK
    <2> QED  BY <2>1, <2>2
  <1>5. Stored' = Stored /\ Active' = Active /\ \A s : Made(s)' = Made(s)
    BY <1>1, FactsStand
  <1>6. PICK r \in Locals :
          /\ go' = [go EXCEPT ![p] = r] /\ r.seen = {} /\ ~r.activated
          /\ go[p].op = "acceptSug" => r.pc = "list" /\ r.sug = d
          /\ go[p].op # "acceptSug" => r.pc = "idle" /\ r.sug = 0
    <2>1. CASE go[p].op = "acceptSug"
      <3>1. go' = [go EXCEPT ![p] = ListRow(d)]
        BY <1>3, <2>1 DEF CloseSuggestion, ToList, ListRow
      <3>2. d \in Nat
        BY <1>1
      <3> QED  BY <2>1, <3>1, <3>2, ListRowIs
    <2>2. CASE go[p].op # "acceptSug"
      BY <2>2, IdleIs DEF CloseSuggestion, Ends
    <2> QED  BY <2>1, <2>2
  <1>7. Moves(p, r)
    BY <1>1, <1>6, GoMoves
  <1>8. MemTypeOK'
    BY <1>1, <1>4, <1>7 DEF MemTypeOK, Moves
  <1>9. Control'
    <2>1. InHand(r)'
      BY <1>2, <1>4, <1>6 DEF InHand
    <2> QED  BY <1>1, <1>4, <1>5, <1>7, <2>1, ControlMoves DEF Control
  <1>10. SupersededHasHeir'
    BY <1>1, <1>5, <1>7, HeirMoves
  <1>11. Decided'
    <2>1. d # 0 /\ Standing(go[p]) => IF r.sug = d THEN Standing(r)' ELSE Kept(d)'
      <3> SUFFICES ASSUME d # 0, Standing(go[p]) PROVE IF r.sug = d THEN Standing(r)' ELSE Kept(d)'
        OBVIOUS
      <3>1. CASE go[p].op = "acceptSug"
        <4>1. MadeOne(d) /\ Made(d)' = Made(d) /\ suggestions'[d].status = "accepted"
          BY <1>1, <1>3, <1>4, <1>5, <3>1 DEF Standing
        <4>2. MadeOne(d)'
          BY <1>5, <4>1 DEF MadeOne
        <4> QED  BY <1>6, <3>1, <4>1, <4>2 DEF Standing
      <3>2. CASE go[p].op # "acceptSug"
        <4>1. Made(d) = {} /\ Made(d)' = Made(d) /\ suggestions'[d].status = "rejected"
          BY <1>1, <1>3, <1>4, <1>5, <3>2 DEF Standing
        <4> QED  BY <1>6, <3>2, <4>1 DEF Kept
      <3> QED  BY <3>1, <3>2
    <2>2. \A s \in 1 .. Len(suggestions') : s # d =>
            /\ s \in 1 .. Len(suggestions)
            /\ Made(s)' = Made(s) /\ suggestions'[s].status = suggestions[s].status
      BY <1>4, <1>5
    <2> QED  BY <1>1, <1>3, <1>6, <1>7, <2>1, <2>2, DecidedMoves
  <1>12. Shown'
    <2>1. \A i : WillShow(go[p], i) => WillShow(r, i)'
      BY <1>1, <1>2, <1>6 DEF WillShow
    <2> QED  BY <1>1, <1>5, <1>6, <1>7, <2>1, ShownMoves
  <1> QED  BY <1>8, <1>9, <1>10, <1>11, <1>12 DEF MemInv

LEMMA QueueReviewKeeps ==
  ASSUME MemInv, NEW p \in Procs, QueueReview(p)
  PROVE  MemInv'
  <1>1. /\ go[p] \in Locals /\ InHand(go[p]) /\ go[p].pc = "candidate"
        /\ MemTypeOK /\ Control /\ SupersededHasHeir /\ Decided /\ Shown
        /\ UNCHANGED <<facts, profile>>
        /\ UNCHANGED <<contested, cut, orphaned, raced, unprojected>>
        /\ Len(suggestions) \in Nat
    BY HasInHand DEF QueueReview, history
  <1>2. go[p].sug = 0 /\ go[p].todo # <<>> /\ go[p].seen \subseteq Stored
    BY <1>1 DEF InHand
  <1>3. Head(go[p].todo) \in Candidate /\ Tail(go[p].todo) \in Seq(Candidate)
    BY <1>2, HasInHand, HeadTailProperties
  <1>4. PICK new \in SuggestionRow : new.status = "pending" /\ suggestions' = Append(suggestions, new)
    <2> DEFINE c == Head(go[p].todo)
    <2>1. PICK m \in Nat : m = Match(p, c)
      BY MatchIs
    <2>2. c.text \in Text /\ c.sensitive \in BOOLEAN
      BY <1>3 DEF Candidate
    <2> DEFINE new == [status |-> "pending", text |-> c.text, sensitive |-> c.sensitive, conflict |-> m]
    <2>3. new \in SuggestionRow /\ new.status = "pending"
      BY <2>2 DEF SuggestionRow
    <2>4. suggestions' = Append(suggestions, new)
      BY <2>1 DEF QueueReview
    <2> HIDE DEF new
    <2> QED  BY <2>3, <2>4
  <1>5. /\ suggestions' \in Seq(SuggestionRow) /\ Len(suggestions') = Len(suggestions) + 1
        /\ \A s \in 1 .. Len(suggestions) : suggestions'[s] = suggestions[s]
        /\ suggestions'[Len(suggestions) + 1].status = "pending"
    BY <1>1, <1>4, AppendProperties DEF MemTypeOK
  <1>6. PICK seen \in SUBSET Nat, todo \in Seq(Candidate), b \in BOOLEAN :
          seen = go[p].seen /\ b = go[p].activated /\ ToCandidate(p, seen, todo, b)
    BY <1>3, HasInHand DEF QueueReview, NextCandidate
  <1>7. PICK r \in Locals : go' = [go EXCEPT ![p] = r] /\ OnTheWay(r, seen, b)
    <2>1. go[p].sug = 0
      BY <1>2
    <2>2. ToCandidate(p, seen, todo, b)
      BY <1>6
    <2> QED  BY <2>1, <2>2, ToCandidateIs
  <1>8. Moves(p, r)
    BY <1>1, <1>7, GoMoves
  <1>9. Stored' = Stored /\ Active' = Active /\ \A s : Made(s)' = Made(s)
    BY <1>1, FactsStand
  <1>10. MemTypeOK'
    BY <1>1, <1>5, <1>8 DEF MemTypeOK, Moves
  <1>11. Control'
    <2>1. InHand(r)'
      BY <1>1, <1>2, <1>5, <1>6, <1>7, <1>9 DEF InHand, OnTheWay
    <2>2. Len(suggestions') \in Nat /\ Len(suggestions) <= Len(suggestions')
      BY <1>1, <1>5
    <2>3. \A i \in Stored' : facts'[i].from \in 0 .. Len(suggestions')
      BY <1>1, <1>5, <1>9 DEF Control
    <2> QED  BY <1>1, <1>8, <1>9, <2>1, <2>2, <2>3, ControlMoves DEF Control
  <1>12. SupersededHasHeir'
    BY <1>1, <1>8, <1>9, HeirMoves
  <1>13. Decided'
    <2>1. PICK n \in Nat : n = Len(suggestions) + 1
      BY <1>1
    <2>2. Made(n) = {}
      BY <1>1, <2>1 DEF Control, Made
    <2>3. Made(n)' = {} /\ suggestions'[n].status = "pending"
      BY <1>5, <1>9, <2>1, <2>2
    <2>4. Kept(n)'
      BY <2>3 DEF Kept
    <2>5. \A q \in Procs : go[q].sug # n
      BY <1>1, <2>1 DEF Control, InHand
    <2>6. \A s \in 1 .. Len(suggestions') :
           \/ /\ s \in 1 .. Len(suggestions)
              /\ Made(s)' = Made(s) /\ suggestions'[s].status = suggestions[s].status
           \/ Kept(s)' /\ \A q \in Procs : go[q].sug # s
      BY <1>1, <1>5, <1>9, <2>1, <2>4, <2>5
    <2>7. PICK d \in 0 .. Len(suggestions) : d = 0
      BY <1>1
    <2> QED  BY <1>1, <1>2, <1>7, <1>8, <2>6, <2>7, DecidedMoves DEF OnTheWay
  <1>14. Shown'
    <2>1. \A i : WillShow(go[p], i) => WillShow(r, i)'
      BY <1>1, <1>6, <1>7 DEF WillShow, OnTheWay
    <2>2. r.pc # "upsert"
      BY <1>7 DEF OnTheWay
    <2> QED  BY <1>1, <1>8, <1>9, <2>1, <2>2, ShownMoves
  <1> QED  BY <1>10, <1>11, <1>12, <1>13, <1>14 DEF MemInv

\* Where a goroutine goes once it has inserted the fact i.
LEMMA AfterInsertIs ==
  ASSUME MemInv, NEW p \in Procs, go[p].pc = "insert", NEW i \in Nat, AfterInsert(p, i)
  PROVE  \E r \in Locals :
           /\ go' = [go EXCEPT ![p] = r]
           /\ r.pc \in {"close", "list", "candidate", "idle"} /\ r.seen \subseteq Stored \cup {i}
           /\ r.pc = "close" => r.op = "acceptSug"
           /\ r.pc = "candidate" => r.op = "extract" /\ r.todo # <<>>
           /\ r.activated => r.pc = "candidate" /\ r.op = "extract"
           /\ IF go[p].op = "acceptSug" THEN r.pc = "close" /\ r.sug = go[p].sug ELSE r.sug = 0 /\ go[p].sug = 0
           /\ Projects(go[p].op) => r.activated \/ r.pc \in {"list", "close"}
  <1>1. go[p] \in Locals /\ InHand(go[p]) /\ go[p].seen \subseteq Stored /\ go[p].sug \in Nat
    BY HasInHand DEF InHand
  <1>2. go[p].op # "acceptSug" => go[p].sug = 0
    BY <1>1 DEF InHand
  <1>3. CASE go[p].op = "acceptSug"
    <2> DEFINE r == [go[p] EXCEPT !.pc = "close"]
    <2>1. /\ r \in Locals /\ r.pc = "close" /\ r.sug = go[p].sug /\ r.activated = go[p].activated
          /\ r.seen = go[p].seen /\ r.op = go[p].op
      BY <1>1 DEF Locals, Pcs
    <2>2. go' = [go EXCEPT ![p] = r]
      BY <1>3 DEF AfterInsert, Goto
    <2> HIDE DEF r
    <2>3. ~r.activated
      BY <1>1, <1>3, <2>1 DEF InHand
    <2> QED  BY <1>1, <1>3, <2>1, <2>2, <2>3
  <1>4. CASE go[p].op \in {"edit", "new"}
    <2>1. go' = [go EXCEPT ![p] = ListRow(0)]
      BY <1>2, <1>4 DEF AfterInsert, ToList, ListRow
    <2>2. 0 \in Nat
      OBVIOUS
    <2> QED  BY <1>2, <1>4, <2>1, <2>2, ListRowIs
  <1>5. CASE go[p].op = "extract"
    <2>1. Tail(go[p].todo) \in Seq(Candidate) /\ go[p].seen \in SUBSET Nat
      <3>1. go[p].todo # <<>>
        BY <1>1, <1>5 DEF InHand
      <3> QED  BY <3>1, HasInHand, HeadTailProperties
    <2>2. PICK seen \in SUBSET Nat, todo \in Seq(Candidate), b \in BOOLEAN :
            seen = go[p].seen \cup {i} /\ b = TRUE /\ ToCandidate(p, seen, todo, b)
      BY <1>5, <2>1 DEF AfterInsert
    <2>3. go[p].sug = 0
      BY <1>2, <1>5
    <2>4. PICK r \in Locals : go' = [go EXCEPT ![p] = r] /\ OnTheWay(r, seen, b)
      BY <2>2, <2>3, ToCandidateIs
    <2> QED  BY <1>1, <1>5, <2>2, <2>3, <2>4 DEF OnTheWay
  <1>6. CASE go[p].op \notin {"acceptSug", "edit", "new", "extract"}
    <2>1. go' = [go EXCEPT ![p] = Idle]
      BY <1>6 DEF AfterInsert, Ends
    <2> QED  BY <1>2, <1>6, <2>1, IdleIs DEF Projects
  <1> QED  BY <1>3, <1>4, <1>5, <1>6

LEMMA InsertFactKeeps ==
  ASSUME MemInv, NEW p \in Procs, InsertFact(p)
  PROVE  MemInv'
  <1>1. /\ go[p] \in Locals /\ InHand(go[p]) /\ go[p].pc = "insert"
        /\ MemTypeOK /\ Control /\ SupersededHasHeir /\ Decided /\ Shown
        /\ UNCHANGED <<suggestions, profile, contested, cut, orphaned, raced>>
        /\ Len(suggestions) \in Nat /\ Len(facts) \in Nat
    BY HasInHand DEF InsertFact
  <1>2. PICK i \in Nat, d \in 0 .. Len(suggestions) : i = Len(facts) + 1 /\ d = go[p].sug
    BY <1>1, HasInHand
  <1>3. PICK new \in FactRow : /\ facts' = Append(facts, new)
                               /\ new.status = "active" /\ new.supersedes = go[p].fact /\ new.from = d
    <2> DEFINE new == [on |-> TRUE, status |-> "active", text |-> go[p].text,
                       sensitive |-> go[p].sensitive, supersedes |-> go[p].fact, from |-> go[p].sug]
    <2>1. new \in FactRow /\ new.status = "active" /\ new.supersedes = go[p].fact /\ new.from = go[p].sug
      BY HasInHand DEF FactRow
    <2>2. facts' = Append(facts, new)
      BY DEF InsertFact, Inserted
    <2> HIDE DEF new
    <2> QED  BY <1>2, <2>1, <2>2
  <1>4. Added(new)
    BY <1>1, <1>3, RowAdded
  <1>5. /\ facts' \in Seq(FactRow) /\ Stored' = Stored \cup {i} /\ i \notin Stored
        /\ \A j \in Stored : facts'[j] = facts[j]
        /\ facts'[i] = new
    BY <1>2, <1>4 DEF Added
  <1>6. PICK r \in Locals :
           /\ go' = [go EXCEPT ![p] = r]
           /\ r.pc \in {"close", "list", "candidate", "idle"} /\ r.seen \subseteq Stored \cup {i}
           /\ r.pc = "close" => r.op = "acceptSug"
           /\ r.pc = "candidate" => r.op = "extract" /\ r.todo # <<>>
           /\ r.activated => r.pc = "candidate" /\ r.op = "extract"
           /\ IF go[p].op = "acceptSug" THEN r.pc = "close" /\ r.sug = go[p].sug ELSE r.sug = 0 /\ go[p].sug = 0
           /\ Projects(go[p].op) => r.activated \/ r.pc \in {"list", "close"}
    <2>1. AfterInsert(p, i)
      BY <1>2 DEF InsertFact
    <2> QED  BY <1>1, <2>1, AfterInsertIs
  <1>7. Moves(p, r) /\ r.sug \in {0, d}
    BY <1>1, <1>2, <1>6, GoMoves
  <1>8. unprojected \subseteq unprojected' /\ unprojected' \in SUBSET Nat /\ (~Projects(go[p].op) => i \in unprojected')
    BY <1>1, <1>2 DEF InsertFact, MemTypeOK
  <1>9. MemTypeOK'
    BY <1>1, <1>5, <1>7, <1>8 DEF MemTypeOK, Moves
  <1>10. Control'
    <2>1. InHand(r)'
      BY <1>1, <1>2, <1>5, <1>6, <1>7 DEF InHand
    <2>2. \A j \in Stored' : facts'[j].from \in 0 .. Len(suggestions')
      BY <1>1, <1>3, <1>5 DEF Control
    <2> QED  BY <1>1, <1>5, <1>7, <2>1, <2>2, ControlMoves DEF Control
  <1>11. SupersededHasHeir'
    <2>1. i \in Stored' /\ facts'[i].supersedes = go[p].fact /\ facts'[i].status # "superseded"
      BY <1>3, <1>5
    <2> QED  BY <1>1, <1>5, <1>7, <2>1, HeirMoves
  <1>12. \A s : s # d => Made(s)' = Made(s)
    BY <1>3, <1>5 DEF Made
  <1>13. Decided'
    <2>1. d # 0 /\ Standing(go[p]) => IF r.sug = d THEN Standing(r)' ELSE Kept(d)'
      <3> SUFFICES ASSUME d # 0, Standing(go[p]) PROVE r.sug = d /\ Standing(r)'
        OBVIOUS
      <3>1. r.sug = d /\ r.pc = "close" /\ r.op = "acceptSug"
        BY <1>2, <1>6
      <3>2. Made(d) = {} /\ suggestions[d].status = "pending"
        BY <1>1, <1>2 DEF Standing
      <3>3. Made(d)' = {i} /\ i \in Stored'
        BY <1>3, <1>5, <3>2 DEF Made
      <3>4. MadeOne(d)' /\ suggestions'[d].status = "pending"
        BY <1>1, <3>2, <3>3 DEF MadeOne
      <3> QED  BY <3>1, <3>4 DEF Standing
    <2>2. \A s \in 1 .. Len(suggestions') : s # d =>
            /\ s \in 1 .. Len(suggestions)
            /\ Made(s)' = Made(s) /\ suggestions'[s].status = suggestions[s].status
      BY <1>1, <1>12
    <2> QED  BY <1>1, <1>2, <1>7, <2>1, <2>2, DecidedMoves
  <1>14. Shown'
    <2>1. \A j \in Stored : j \in Active' <=> j \in Active
      BY <1>5 DEF Active
    <2>2. Projects(go[p].op) => \A j : WillShow(r, j)'
      BY <1>6 DEF WillShow
    <2>3. ~Projects(go[p].op) => \A j : ~WillShow(go[p], j)
      BY <1>1 DEF WillShow, InHand, Projects
    <2>4. \A j \in Stored' \ unprojected' :
           \/ WillShow(r, j)'
           \/ /\ j \in Stored \ unprojected /\ (j \in Active' <=> j \in Active)
              /\ WillShow(go[p], j) => WillShow(r, j)'
      BY <1>5, <1>8, <2>1, <2>2, <2>3
    <2>5. r.pc # "upsert"
      BY <1>6
    <2> QED  BY <1>1, <1>7, <2>4, <2>5, ShownMoves
  <1> QED  BY <1>9, <1>10, <1>11, <1>13, <1>14 DEF MemInv

-----------------------------------------------------------------------------
(* The theorems *)

LEMMA MemInvStarts == Init => MemInv
  <1> SUFFICES ASSUME Init PROVE MemInv
    OBVIOUS
  <1>1. PICK t \in Text, b \in BOOLEAN :
          facts = <<[on |-> TRUE, status |-> "active", text |-> t, sensitive |-> b, supersedes |-> 0, from |-> 0]>>
    BY DEF Init
  <1> DEFINE f == [on |-> TRUE, status |-> "active", text |-> t, sensitive |-> b, supersedes |-> 0, from |-> 0]
  <1>2. f \in FactRow /\ f.on /\ f.status = "active" /\ f.from = 0
    BY DEF FactRow, TextOrNone
  <1> HIDE DEF f
  <1>3. facts = <<f>>
    BY <1>1 DEF f
  <1>4. facts \in Seq(FactRow) /\ Len(facts) = 1 /\ facts[1] = f
    BY <1>2, <1>3
  <1>5. Stored = {1} /\ Active = {1}
    BY <1>2, <1>4 DEF Stored, Active
  <1>6. /\ suggestions \in Seq(SuggestionRow) /\ Len(suggestions) \in Nat
        /\ \A s \in 1 .. Len(suggestions) : suggestions[s].status = "pending"
    <2>1. CASE suggestions = <<>>
      BY <2>1
    <2>2. CASE suggestions # <<>>
      <3>1. PICK u \in Text : suggestions = <<[status |-> "pending", text |-> u, sensitive |-> FALSE, conflict |-> 1]>>
        BY <2>2 DEF Init
      <3> DEFINE g == [status |-> "pending", text |-> u, sensitive |-> FALSE, conflict |-> 1]
      <3>2. g \in SuggestionRow /\ g.status = "pending"
        BY DEF SuggestionRow
      <3>3. suggestions = <<g>>
        BY <3>1
      <3> HIDE DEF g
      <3> QED  BY <3>2, <3>3
    <2> QED  BY <2>1, <2>2
  <1>7. /\ profile = [by |-> "projection", shows |-> {1}] /\ go = [p \in Procs |-> Idle]
        /\ raced = FALSE /\ unprojected = {}
    BY DEF Init
  <1>8. \A p \in Procs : go[p] = Idle
    BY <1>7
  <1>9. MemTypeOK
    <2>1. profile \in ProfileRow
      BY <1>7 DEF ProfileRow
    <2> QED  BY <1>4, <1>6, <1>7, <2>1, IdleIs DEF MemTypeOK
  <1>10. Control
    <2>1. InHand(Idle)
      BY <1>6, IdleIs DEF InHand
    <2> QED  BY <1>2, <1>4, <1>5, <1>6, <1>7, <1>8, <2>1 DEF Control
  <1>11. SupersededHasHeir
    BY <1>2, <1>4, <1>5 DEF SupersededHasHeir
  <1>12. Decided
    <2>1. \A s \in 1 .. Len(suggestions) : Made(s) = {} /\ s # 0
      BY <1>2, <1>4, <1>5, <1>6 DEF Made
    <2> QED  BY <1>6, <1>8, <2>1, IdleIs DEF Decided, Kept
  <1>13. Shown
    BY <1>5, <1>7, <1>8, IdleIs DEF Shown
  <1> QED  BY <1>9, <1>10, <1>11, <1>12, <1>13 DEF MemInv

LEMMA MemInvStays == MemInv /\ [Next]_vars => MemInv'
  <1> SUFFICES ASSUME MemInv, [Next]_vars PROVE MemInv'
    OBVIOUS
  <1>1. ASSUME NEW p \in Requests, Request(p) PROVE MemInv'
    <2>1. p \in Procs
      BY DEF Procs
    <2> QED
      BY <1>1, <2>1, StartItemKeeps, StartBlindSetKeeps, PatchItemKeeps, StartOldKeeps, UpdateProfileKeeps,
         StartDecisionKeeps, GetFactKeeps, GetActiveFactKeeps, SetStatusKeeps, GetSuggestionKeeps,
         CloseSuggestionKeeps, SupersedeIgnoredKeeps DEF Request
  <1>2. ASSUME NEW p \in Extractors, Extract(p) PROVE MemInv'
    <2>1. p \in Procs
      BY DEF Procs
    <2> QED
      BY <1>2, <2>1, StartJobKeeps, ListExistingKeeps, ReinforceKeeps, ActivateKeeps, QueueReviewKeeps,
         JobRetriedKeeps DEF Extract
  <1>3. ASSUME NEW p \in Compilers, Compile(p) PROVE MemInv'
    <2>1. p \in Procs
      BY DEF Procs
    <2> QED
      BY <1>3, <2>1, StartJobKeeps, ReadFactsKeeps, WriteSummaryKeeps DEF Compile
  <1>4. ASSUME NEW p \in Procs,
               \/ Supersede(p) \/ Deactivate(p) \/ InsertFact(p)
               \/ ListActive(p) \/ UpsertProfile(p) \/ CutOff(p)
        PROVE  MemInv'
    BY <1>4, SupersedeKeeps, DeactivateKeeps, InsertFactKeeps, ListActiveKeeps, UpsertProfileKeeps, CutOffKeeps
  <1>5. CASE UNCHANGED vars
    <2>1. /\ UNCHANGED <<facts, suggestions, profile, go, raced, unprojected>>
          /\ UNCHANGED <<contested, cut, orphaned>>
      BY <1>5 DEF vars, history
    <2>2. Stored' = Stored /\ Active' = Active
      BY <2>1 DEF Stored, Active
    <2>3. MemTypeOK'
      BY <2>1 DEF MemInv, MemTypeOK
    <2>4. Control'
      BY <2>1, <2>2 DEF MemInv, Control, InHand
    <2>5. SupersededHasHeir'
      BY <2>1, <2>2 DEF MemInv, SupersededHasHeir
    <2>6. Decided'
      BY <2>1, <2>2 DEF MemInv, Decided, Undecided, Kept, MadeOne, Made, Standing
    <2>7. Shown'
      BY <2>1, <2>2 DEF MemInv, Shown, Covered, WillShow
    <2> QED  BY <2>3, <2>4, <2>5, <2>6, <2>7 DEF MemInv
  <1> QED  BY <1>1, <1>2, <1>3, <1>4, <1>5 DEF Next

THEOREM MemoriesStand == Spec => []MemInv
  BY MemInvStarts, MemInvStays, PTL DEF Spec

\* A suggestion nobody is at work on has made one fact if it is accepted and none
\* otherwise, however often it was decided, retried or suggested again.
THEOREM DecisionsAreCarriedOut == Spec => []DecisionsMatchFacts
  <1>1. MemInv => DecisionsMatchFacts
    <2> SUFFICES ASSUME MemInv, NEW s \in 1..Len(suggestions), Undecided(s), s \notin contested \cup cut
                 PROVE  Cardinality({i \in Stored : facts[i].from = s})
                          = IF suggestions[s].status = "accepted" THEN 1 ELSE 0
      BY DEF DecisionsMatchFacts
    <2>1. Kept(s)
      BY DEF MemInv, Decided
    <2>2. CASE suggestions[s].status = "accepted"
      <3>1. PICK i \in Stored : Made(s) = {i}
        BY <2>1, <2>2 DEF Kept, MadeOne
      <3> QED  BY <2>2, <3>1, FS_Singleton DEF Made
    <2>3. CASE suggestions[s].status # "accepted"
      <3>1. Made(s) = {}
        BY <2>1, <2>3 DEF Kept
      <3> QED  BY <2>3, <3>1, FS_EmptySet DEF Made
    <2> QED  BY <2>2, <2>3
  <1> QED  BY <1>1, MemoriesStand, PTL

\* A superseded fact has a successor, or a goroutine that is about to insert it,
\* unless the insert failed.
THEOREM NothingIsLostByReplacing == Spec => []SupersededHasHeir
  <1>1. MemInv => SupersededHasHeir
    BY DEF MemInv
  <1> QED  BY <1>1, MemoriesStand, PTL

\* A projection nobody is at work on shows the active facts and no others, but for
\* those that were changed without a projection, and the overtaken ones.
THEOREM ProjectionIsOfTheFacts == Spec => []ProfileFollowsFacts
  <1>1. MemInv => ProfileFollowsFacts
    <2> SUFFICES ASSUME MemInv, profile.by = "projection", ~raced, \A p \in Procs : ~AtWork(p)
                 PROVE  profile.shows \ unprojected = Active \ unprojected
      BY DEF ProfileFollowsFacts
    <2>1. \A i : ~Covered(i)
      BY DEF Covered, WillShow, AtWork
    <2>2. profile.shows \subseteq Stored /\ Active \subseteq Stored
      BY DEF MemInv, Control, Active
    <2>3. \A i \in Stored \ unprojected : i \in profile.shows <=> i \in Active
      BY <2>1 DEF MemInv, Shown
    <2> QED  BY <2>2, <2>3
  <1> QED  BY <1>1, MemoriesStand, PTL
=============================================================================
