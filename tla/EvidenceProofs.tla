---------------------------- MODULE EvidenceProofs ----------------------------
(***************************************************************************)
(* Proofs about what a session holds of the work it changes, as Completion *)
(* composes it from SessionEvidence and WorkspaceObserver: its diff says   *)
(* the truth of every path it changed, and the user's own work is held by  *)
(* a checkpoint, by an image or by the operation under way.                *)
(***************************************************************************)
EXTENDS CompletionProofs, FiniteSetTheorems

------------------------------------------------------------------------------
(* What the session holds of the work it changed. *)

\* The text an observation saw at a path, and the repository it saw.
TextSeen(o, p) ==
  IF o.images[p].kind # "none" THEN o.images[p].text
  ELSE IF o.at.sample[p] # NoSample THEN o.at.sample[p].text
  ELSE IF o.at.kind[p] = "deleted" THEN Absent
  ELSE o.at.head.tree[p]

WorldSeen(o) ==
  [text |-> [p \in Path |-> TextSeen(o, p)], head |-> o.at.head, hidden |-> o.at.hidden]

Faithful(o) ==
  /\ Fingerprint(o.at) = PrintOf(WorldSeen(o))
  /\ \A p \in Path : o.at.kind[p] = o.at.status[p].kind

\* A path is the same in two repositories.
Alike(u, v, p) == u.text[p] = v.text[p] /\ u.head.tree[p] = v.head.tree[p]

Texts ==
  /\ wt = [p \in Path |-> [text |-> wt[p].text, stamp |-> wt[p].stamp]]
  /\ \A p \in Path : wt[p].text \in Text
  /\ origin = [p \in Path |-> origin[p]]
  /\ head = [id |-> head.id, tree |-> head.tree] /\ head.id \in Nat

\* The mutations that name a path.
Listing(p) == {i \in 1..Len(mutations) : p \in mutations[i].paths}

\* They have a first one, and the session has changed the path.
NamedKept ==
  \A p \in Path : Listing(p) # {} =>
    /\ origin[p] # None
    /\ \E i \in Listing(p) : \A j \in Listing(p) : i <= j

\* The diff says the truth of a path.
Told(p) ==
  \/ p \in Listed /\ DiffBaseline(p) \in {origin[p], Unavailable}
  \/ p \notin Listed /\ Limited

\* The paths that two observations show changed.
ChangedPaths == {p \in Candidates : Changed(p)}

\* The path changed for the first time in the operation under way.
First(p) == p \notin Listed /\ origin[p] = TextSeen(pre, p)

Under == {"launched", "exited", "observed"}
Phases == {None, "patched", "result"} \cup Under

Truth ==
  /\ op.phase \in Phases
  /\ op.phase \in {None, "launched"} => \A p \in Path : origin[p] # None => Told(p)
  /\ op.phase \in {"patched", "result"} =>
       /\ op.path \in Path /\ origin[op.path] # None
       /\ \A p \in Path : origin[p] # None =>
            Told(p) \/ (p = op.path /\ p \notin Listed /\ origin[p] = op.before)
  /\ op.phase \in Under => Faithful(pre) /\ pre.state = "complete"
  /\ op.phase = "launched" => WorldSeen(pre) = World
  /\ op.phase = "exited" =>
       /\ head = pre.at.head \/ (head.id # pre.at.head.id /\ head.tree = Tree)
       /\ \A p \in Path :
            /\ origin[p] # None => Told(p) \/ (First(p) /\ ~ Alike(WorldSeen(pre), World, p))
            /\ ~ Alike(WorldSeen(pre), World, p) => origin[p] # None
  /\ op.phase = "observed" => post.moved \subseteq Path
  /\ op.phase = "observed" =>
       \A p \in Path :
         /\ origin[p] # None => Told(p) \/ First(p)
         /\ post.state = "complete" =>
              /\ origin[p] # None => Told(p) \/ p \in ChangedPaths
              /\ p \in ChangedPaths => origin[p] # None
              /\ Fingerprint(pre.at) = Fingerprint(post.at) /\ origin[p] # None => Told(p)

\* An image that has the text.
Kept(images, p) == images[p].kind \in {"retained", "blob"}

\* A record that has the text of a path, or that names the path or may have to.
Covers(m, p) ==
  (m.kind = "patch" /\ p \in m.paths) \/ (m.kind = "terminal" /\ Kept(m.images, p))
Names(m, p) == p \in m.paths \/ Unlisted(m)

Covered(p) == \E i \in 1..Len(mutations) : Covers(mutations[i], p)

\* A record holds the text t of a path.
Recorded(p, t) ==
  \E i \in 1..Len(mutations) :
    LET m == mutations[i] IN
    /\ Covers(m, p)
    /\ t = IF m.kind = "terminal" THEN m.images[p].text ELSE m.before[p]

Saved(p) == p \in PreExisting \ edited /\ origin[p] # None => Recorded(p, origin[p])
InHand(p) == op.phase \in Under /\ Kept(pre.images, p) /\ pre.images[p].text = origin[p]

WorkKept ==
  /\ \A p \in PreExisting :
       Covered(p) \/ \A i \in 1..Len(mutations) : ~ Names(mutations[i], p)
  /\ op.phase \in Under => \A p \in PreExisting : Covered(p) \/ Kept(pre.images, p)
  /\ \A p \in PreExisting \ edited : origin[p] = None =>
       /\ \A i \in 1..Len(mutations) :
            mutations[i].kind = "terminal" /\ Kept(mutations[i].images, p)
              => mutations[i].images[p].text = wt[p].text
       /\ op.phase \in Under /\ Kept(pre.images, p) => pre.images[p].text = wt[p].text
  /\ op.phase \in {None, "launched"} => \A p \in Path : Saved(p)
  /\ op.phase \in {"patched", "result"} =>
       \A p \in Path : Saved(p) \/ (p = op.path /\ origin[p] = op.before)
  /\ op.phase \in {"exited", "observed"} => \A p \in Path : Saved(p) \/ InHand(p)
  /\ op.phase = "exited" =>
       \A p \in Path : Saved(p) \/ ~ Alike(WorldSeen(pre), World, p)
  /\ op.phase = "observed" /\ post.state = "complete"
       /\ Fingerprint(pre.at) = Fingerprint(post.at) => \A p \in Path : Saved(p)

EvInv == Texts /\ NamedKept /\ Truth /\ WorkKept

------------------------------------------------------------------------------
(* Facts about observations and records. *)

LEMMA TextsDistinct == None \notin Text /\ None # Absent
  BY CompletionAssumption DEF Text, None, Absent

\* An observation made at one moment has seen the repository of that moment.
LEMMA ObservedNow ==
  ASSUME Texts, NEW o \in {ObservedBefore, ObservedAfter}
  PROVE  Faithful(o) /\ WorldSeen(o) = World
  <1>1. o.at = Collected
    BY DEF ObservedBefore, ObservedAfter, NoObservation
  <1>2. ASSUME NEW p \in Path, o.images[p].kind # "none"
        PROVE  o.images[p].text = wt[p].text
    <2>1. o = ObservedBefore
      <3>1. ObservedAfter.images = NoImage
        BY DEF ObservedAfter, NoObservation
      <3>2. NoImage[p].kind = "none"
        BY DEF NoImage
      <3> QED
        BY <1>2, <3>1, <3>2
    <2>2. o.images[p] = Image(p, Collected, PreExisting)
      BY <1>2, <2>1 DEF ObservedBefore, NoObservation, Images, NoImage
    <2>3. Collected.kind[p] # "clean" => Collected.sample[p].text = wt[p].text
      BY DEF Collected, Sample, NoSample
    <2> QED
      BY <2>2, <2>3 DEF Image
  <1>3. ASSUME NEW p \in Path
        PROVE  TextSeen(o, p) = wt[p].text
    <2>1. /\ Collected.kind[p] = Kind(p, head.tree)
          /\ Collected.sample[p] = IF Kind(p, head.tree) = "clean" THEN NoSample ELSE Sample(p)
          /\ Collected.head = head
      BY DEF Collected
    <2>2. CASE o.images[p].kind = "none" /\ Kind(p, head.tree) = "clean"
      <3>1. wt[p].text = head.tree[p]
        BY <2>2 DEF Kind
      <3> QED
        BY <1>1, <2>1, <2>2, <3>1 DEF TextSeen
    <2>3. CASE o.images[p].kind = "none" /\ Kind(p, head.tree) # "clean" /\ wt[p].text = Absent
      <3>1. Kind(p, head.tree) = "deleted"
        BY <2>3 DEF Kind
      <3> QED
        BY <1>1, <2>1, <2>3, <3>1 DEF TextSeen, Sample
    <2>4. CASE o.images[p].kind = "none" /\ Kind(p, head.tree) # "clean" /\ wt[p].text # Absent
      BY <1>1, <2>1, <2>4 DEF TextSeen, Sample, NoSample
    <2> QED
      BY <1>2, <2>2, <2>3, <2>4 DEF TextSeen
  <1>4. WorldSeen(o) = World
    BY <1>1, <1>3 DEF WorldSeen, World, Tree, Collected, ProtectedState
  <1>5. Fingerprint(o.at) = PrintOf(World)
    BY <1>1, PresentIsWorld DEF Present
  <1>6. \A p \in Path : o.at.kind[p] = o.at.status[p].kind
    BY <1>1 DEF Collected
  <1> QED
    BY <1>4, <1>5, <1>6 DEF Faithful

\* What an observation says of a path, and its status.
LEMMA FaithfulSays ==
  ASSUME NEW o, Faithful(o), NEW p \in Path
  PROVE  /\ PathState(p, o).text = TextSeen(o, p)
         /\ o.at.status[p] = StatusIn(WorldSeen(o), p)
         /\ o.at.kind[p] = o.at.status[p].kind
         /\ o.at.kind[p] = "clean" <=> TextSeen(o, p) = o.at.head.tree[p]
         /\ WorldSeen(o).text[p] = TextSeen(o, p) /\ WorldSeen(o).head = o.at.head
  <1>1. PathState(p, o).text = TextSeen(o, p)
    BY DEF PathState, TextSeen, Known, CommittedState, TreeState
  <1>2. WorldSeen(o).text[p] = TextSeen(o, p) /\ WorldSeen(o).head = o.at.head
    BY DEF WorldSeen
  <1>3. o.at.status[p] = StatusIn(WorldSeen(o), p)
    BY DEF Faithful, Fingerprint, PrintOf
  <1>4. o.at.kind[p] = o.at.status[p].kind
    BY DEF Faithful
  <1>5. o.at.kind[p] = "clean" <=> TextSeen(o, p) = o.at.head.tree[p]
    BY <1>2, <1>3, <1>4 DEF StatusIn
  <1> QED
    BY <1>1, <1>2, <1>3, <1>4, <1>5

\* A command's new HEAD, if it has one, is of what it left in the files.
Stepped(from, w) == w.head = from \/ (w.head.id # from.id /\ w.head.tree = w.text)

\* The paths shown to have changed are those that did.
LEMMA ChangedIs ==
  ASSUME Faithful(pre), Faithful(post), post.images = NoImage,
         post.moved = Moved(pre.at.head, post.at.head),
         Stepped(pre.at.head, WorldSeen(post)), NEW p \in Path
  PROVE  p \in ChangedPaths <=> ~ Alike(WorldSeen(pre), WorldSeen(post), p)
  <1>1. /\ PathState(p, pre).text = TextSeen(pre, p) /\ PathState(p, post).text = TextSeen(post, p)
        /\ pre.at.status[p] = StatusIn(WorldSeen(pre), p)
        /\ post.at.status[p] = StatusIn(WorldSeen(post), p)
        /\ pre.at.kind[p] = pre.at.status[p].kind /\ post.at.kind[p] = post.at.status[p].kind
        /\ pre.at.kind[p] = "clean" <=> TextSeen(pre, p) = pre.at.head.tree[p]
        /\ post.at.kind[p] = "clean" <=> TextSeen(post, p) = post.at.head.tree[p]
        /\ WorldSeen(pre).text[p] = TextSeen(pre, p) /\ WorldSeen(pre).head = pre.at.head
        /\ WorldSeen(post).text[p] = TextSeen(post, p) /\ WorldSeen(post).head = post.at.head
    BY FaithfulSays
  <1>2. p \in post.moved <=> pre.at.head.id # post.at.head.id /\ pre.at.head.tree[p] # post.at.head.tree[p]
    BY DEF Moved
  <1>3. ASSUME Alike(WorldSeen(pre), WorldSeen(post), p)
        PROVE  p \notin ChangedPaths
    <2>1. TextSeen(pre, p) = TextSeen(post, p) /\ pre.at.head.tree[p] = post.at.head.tree[p]
      BY <1>1, <1>3 DEF Alike
    <2>2. StatusIn(WorldSeen(pre), p) = StatusIn(WorldSeen(post), p)
      BY <1>1, <2>1 DEF StatusIn
    <2>3. p \notin post.moved
      BY <1>2, <2>1
    <2>4. PathState(p, pre) = Known(TextSeen(pre, p), "file")
      BY <2>3 DEF PathState, TextSeen, CommittedState, TreeState
    <2>5. PathState(p, post) = Known(TextSeen(post, p), "file")
      BY <2>3 DEF PathState, TextSeen, CommittedState, TreeState
    <2> QED
      BY <1>1, <2>1, <2>2, <2>4, <2>5 DEF ChangedPaths, Changed
  <1>4. ASSUME ~ Alike(WorldSeen(pre), WorldSeen(post), p)
        PROVE  p \in ChangedPaths
    <2>1. TextSeen(pre, p) # TextSeen(post, p) \/ pre.at.head.tree[p] # post.at.head.tree[p]
      BY <1>1, <1>4 DEF Alike
    <2>2. CASE TextSeen(pre, p) # TextSeen(post, p)
      <3>1. Changed(p)
        BY <1>1, <2>2 DEF Changed
      <3>2. CASE pre.at.kind[p] = "clean" /\ post.at.kind[p] = "clean"
        <4>1. pre.at.head.tree[p] # post.at.head.tree[p]
          BY <1>1, <2>2, <3>2
        <4>2. pre.at.head.id # post.at.head.id
          BY <1>1, <4>1 DEF Stepped
        <4> QED
          BY <1>2, <3>1, <4>1, <4>2 DEF ChangedPaths, Candidates
      <3> QED
        BY <3>1, <3>2 DEF ChangedPaths, Candidates
    <2>3. CASE TextSeen(pre, p) = TextSeen(post, p) /\ pre.at.head.tree[p] # post.at.head.tree[p]
      <3>1. post.at.head.tree[p] = TextSeen(post, p)
        BY <1>1, <2>3 DEF Stepped
      <3>2. post.at.kind[p] = "clean" /\ pre.at.kind[p] # "clean"
        BY <1>1, <2>3, <3>1
      <3> QED
        BY <1>1, <3>2 DEF ChangedPaths, Candidates, Changed
    <2> QED
      BY <2>1, <2>2, <2>3
  <1> QED
    BY <1>3, <1>4

------------------------------------------------------------------------------
(* What a record adds. *)

LEMMA EarliestIs ==
  ASSUME NEW I, I \subseteq Nat, NEW i \in I, \A j \in I : i <= j
  PROVE  Earliest(I) = i
  <1>1. Earliest(I) \in I /\ \A j \in I : Earliest(I) <= j
    BY Zenon DEF Earliest
  <1>2. Earliest(I) <= i /\ i <= Earliest(I)
    BY <1>1
  <1>3. Earliest(I) \in Nat /\ i \in Nat
    BY <1>1
  <1> QED
    BY <1>2, <1>3

LEMMA ListedIs ==
  ASSUME IInv, NamedKept, NEW p \in Path
  PROVE  /\ p \in Listed <=> Listing(p) # {}
         /\ \A i \in Listing(p) : (\A j \in Listing(p) : i <= j) => FirstListing(p) = i
  <1>1. {i \in DOMAIN mutations : p \in mutations[i].paths} = Listing(p)
    BY Domain DEF IInv, Records, Listing
  <1>2. FirstListing(p) = Earliest(Listing(p))
    BY <1>1 DEF FirstListing
  <1>3. ASSUME NEW i \in Listing(p), \A j \in Listing(p) : i <= j
        PROVE  Earliest(Listing(p)) = i
    <2>1. Listing(p) \subseteq Nat
      BY DEF Listing, IInv, Records, IsSeq
    <2> QED
      BY <1>3, <2>1, EarliestIs
  <1>4. Listing(p) # {} => Earliest(Listing(p)) # 0
    <2>1. ASSUME Listing(p) # {}
          PROVE  Earliest(Listing(p)) # 0
      <3>1. PICK i \in Listing(p) : \A j \in Listing(p) : i <= j
        BY <2>1 DEF NamedKept
      <3>2. i # 0
        BY DEF Listing
      <3> QED
        BY <1>3, <3>1, <3>2
    <2> QED
      BY <2>1
  <1>5. Listing(p) = {} => Earliest(Listing(p)) = 0
    BY DEF Earliest
  <1> QED
    BY <1>2, <1>3, <1>4, <1>5 DEF Listed

\* What an appended record does to the lists.
LEMMA ListingGrows ==
  ASSUME IInv, NEW record, mutations' = Append(mutations, record), NEW p, NEW m, m = Len(mutations)
  PROVE  /\ Listing(p)' = Listing(p) \cup (IF p \in record.paths THEN {m + 1} ELSE {})
         /\ Listing(p) \subseteq 1..m /\ m \in Nat
         /\ Len(mutations') = m + 1 /\ mutations'[m + 1] = record
         /\ \A i \in 1..m : mutations'[i] = mutations[i]
         /\ DOMAIN mutations = 1..m /\ DOMAIN mutations' = 1..(m + 1)
  <1>1. /\ IsSeq(mutations') /\ Len(mutations') = m + 1
        /\ mutations'[m + 1] = record
        /\ \A i \in 1..m : mutations'[i] = mutations[i]
        /\ m \in Nat
    BY Appended DEF IInv, Records, IsSeq
  <1>2. DOMAIN mutations = 1..m /\ DOMAIN mutations' = 1..(m + 1)
    BY <1>1, Domain DEF IInv, Records
  <1>3. Listing(p)' = {i \in 1..(m + 1) : p \in mutations'[i].paths}
    BY <1>1 DEF Listing
  <1>4. Listing(p)' = Listing(p) \cup (IF p \in record.paths THEN {m + 1} ELSE {})
    BY <1>1, <1>3 DEF Listing
  <1> QED
    BY <1>1, <1>2, <1>4 DEF Listing

LEMMA ListedAfter ==
  ASSUME IInv, NEW record, mutations' = Append(mutations, record), NamedKept', NEW p \in Path
  PROVE  /\ p \in Listed' <=> Listing(p)' # {}
         /\ \A i \in Listing(p)' : (\A j \in Listing(p)' : i <= j) => FirstListing(p)' = i
  <1> PICK m : m = Len(mutations)
    OBVIOUS
  <1>1. m \in Nat /\ Len(mutations') = m + 1 /\ DOMAIN mutations' = 1..(m + 1)
    BY ListingGrows
  <1>2. {i \in DOMAIN mutations' : p \in mutations'[i].paths} = Listing(p)'
        /\ Listing(p)' \subseteq 1..(m + 1)
    BY <1>1 DEF Listing
  <1>3. FirstListing(p)' = Earliest(Listing(p)')
    <2>1. FirstListing(p)' = Earliest({i \in DOMAIN mutations' : p \in mutations'[i].paths})
      BY DEF FirstListing
    <2> QED
      BY <1>2, <2>1
  <1>4. \A i \in Listing(p)' : (\A j \in Listing(p)' : i <= j) => Earliest(Listing(p)') = i
    BY <1>1, <1>2, EarliestIs
  <1>5. Listing(p)' # {} => Earliest(Listing(p)') # 0
    BY <1>2, <1>4 DEF NamedKept
  <1>6. Listing(p)' = {} => Earliest(Listing(p)') = 0
    BY DEF Earliest
  <1> QED
    BY <1>3, <1>4, <1>5, <1>6 DEF Listed

LEMMA NamedGrows ==
  ASSUME IInv, NamedKept, NEW record, mutations' = Append(mutations, record), IInv',
         origin' = origin, \A p \in Path : p \in record.paths => origin[p] # None
  PROVE  NamedKept'
  <1> PICK m : m = Len(mutations)
    OBVIOUS
  <1>1. SUFFICES ASSUME NEW p \in Path, Listing(p)' # {}
                 PROVE  /\ origin[p] # None
                        /\ \E i \in Listing(p)' : \A j \in Listing(p)' : i <= j
    BY DEF NamedKept
  <1>2. /\ Listing(p)' = Listing(p) \cup (IF p \in record.paths THEN {m + 1} ELSE {})
        /\ Listing(p) \subseteq 1..m /\ m \in Nat
    BY ListingGrows
  <1>3. origin[p] # None
    BY <1>1, <1>2 DEF NamedKept
  <1>4. CASE Listing(p) = {}
    BY <1>1, <1>2, <1>3, <1>4
  <1>5. CASE Listing(p) # {}
    <2>1. PICK i \in Listing(p) : \A j \in Listing(p) : i <= j
      BY <1>5 DEF NamedKept
    <2>2. \A j \in Listing(p)' : i <= j
      BY <1>2, <2>1
    <2> QED
      BY <1>2, <1>3, <2>1, <2>2
  <1> QED
    BY <1>4, <1>5

\* What the diff said of a path it goes on to say.
LEMMA ToldOn ==
  ASSUME IInv, NamedKept, NEW record, mutations' = Append(mutations, record), IInv', NamedKept',
         origin' = origin, NEW p \in Path, Told(p)
  PROVE  Told(p)'
  <1> PICK m : m = Len(mutations)
    OBVIOUS
  <1>1. /\ Listing(p)' = Listing(p) \cup (IF p \in record.paths THEN {m + 1} ELSE {})
        /\ Listing(p) \subseteq 1..m /\ m \in Nat
        /\ mutations'[m + 1] = record
        /\ \A i \in 1..m : mutations'[i] = mutations[i]
        /\ DOMAIN mutations = 1..m /\ DOMAIN mutations' = 1..(m + 1)
    BY ListingGrows
  <1>2. /\ p \in Listed' <=> Listing(p)' # {}
        /\ \A i \in Listing(p)' : (\A j \in Listing(p)' : i <= j) => FirstListing(p)' = i
    BY ListedAfter
  <1>3. CASE Listing(p) # {}
    <2>1. PICK i \in Listing(p) : \A j \in Listing(p) : i <= j
      BY <1>3 DEF NamedKept
    <2>2. FirstListing(p) = i /\ p \in Listed
      BY <2>1, ListedIs
    <2>3. FirstListing(p)' = i /\ p \in Listed'
      BY <1>1, <1>2, <2>1
    <2>4. i \in 1..m /\ mutations'[i] = mutations[i]
      BY <1>1
    <2>5. Forced(p) <=> Forced(p)'
      <3>1. Forced(p) <=> \E k \in 1..(i - 1) : Unlisted(mutations[k])
        BY <2>2 DEF Forced
      <3>2. Forced(p)' <=> \E k \in 1..(i - 1) : Unlisted(mutations'[k])
        BY <2>3 DEF Forced, Unlisted
      <3>3. \A k \in 1..(i - 1) : mutations'[k] = mutations[k]
        BY <1>1, <2>4
      <3> QED
        BY <3>1, <3>2, <3>3
    <2>6. DiffBaseline(p)' = DiffBaseline(p)
      BY <2>2, <2>3, <2>4, <2>5 DEF DiffBaseline, Before, PatchBaseline, BeforeCommand
    <2> QED
      BY <2>2, <2>3, <2>6 DEF Told
  <1>4. CASE Listing(p) = {}
    <2>1. Limited /\ p \notin Listed
      BY <1>4, ListedIs DEF Told
    <2>2. PICK k \in 1..m : Unlisted(mutations[k])
      BY <1>1, <2>1 DEF Limited
    <2>3. mutations'[k] = mutations[k] /\ k \in 1..(m + 1) /\ Unlisted(mutations'[k])
      BY <1>1, <2>2
    <2>4. CASE p \in record.paths
      <3>1. Listing(p)' = {m + 1}
        BY <1>1, <1>4, <2>4
      <3>2. FirstListing(p)' = m + 1 /\ p \in Listed'
        BY <1>1, <1>2, <3>1
      <3>3. Forced(p)'
        BY <1>1, <2>2, <2>3, <3>2 DEF Forced, Unlisted
      <3> QED
        BY <3>2, <3>3 DEF Told, DiffBaseline
    <2>5. CASE p \notin record.paths
      <3>1. p \notin Listed'
        BY <1>1, <1>2, <1>4, <2>5
      <3>2. Limited'
        BY <1>1, <2>3 DEF Limited, Unlisted
      <3> QED
        BY <3>1, <3>2 DEF Told
    <2> QED
      BY <2>4, <2>5
  <1> QED
    BY <1>3, <1>4

\* A record of a path that was not named tells the truth of it, if it has the
\* path's earlier text, or none, or says that it lacks paths.
LEMMA ToldNew ==
  ASSUME IInv, NamedKept, NEW record, mutations' = Append(mutations, record), IInv', NamedKept',
         origin' = origin, NEW p \in Path, p \notin Listed,
         \/ p \in record.paths /\ Before(record, p) \in {origin[p], Unavailable}
         \/ p \notin record.paths /\ Unlisted(record)
  PROVE  Told(p)'
  <1> PICK m : m = Len(mutations)
    OBVIOUS
  <1>1. /\ Listing(p)' = Listing(p) \cup (IF p \in record.paths THEN {m + 1} ELSE {})
        /\ Listing(p) \subseteq 1..m /\ m \in Nat
        /\ mutations'[m + 1] = record
        /\ \A i \in 1..m : mutations'[i] = mutations[i]
        /\ DOMAIN mutations = 1..m /\ DOMAIN mutations' = 1..(m + 1)
    BY ListingGrows
  <1>2. /\ p \in Listed' <=> Listing(p)' # {}
        /\ \A i \in Listing(p)' : (\A j \in Listing(p)' : i <= j) => FirstListing(p)' = i
    BY ListedAfter
  <1>3. Listing(p) = {}
    BY ListedIs
  <1>4. CASE p \in record.paths
    <2>1. Listing(p)' = {m + 1}
      BY <1>1, <1>3, <1>4
    <2>2. FirstListing(p)' = m + 1 /\ p \in Listed'
      BY <1>1, <1>2, <2>1
    <2>3. DiffBaseline(p)' \in {Before(record, p), Unavailable}
      BY <1>1, <2>2 DEF DiffBaseline, Before, PatchBaseline, BeforeCommand
    <2> QED
      BY <1>4, <2>2, <2>3 DEF Told
  <1>5. CASE p \notin record.paths
    <2>1. p \notin Listed'
      BY <1>1, <1>2, <1>3, <1>5
    <2>2. Unlisted(mutations'[m + 1])
      BY <1>1, <1>5
    <2>3. Limited'
      BY <1>1, <2>2 DEF Limited, Unlisted
    <2> QED
      BY <2>1, <2>3 DEF Told
  <1> QED
    BY <1>4, <1>5

\* The paths a comparison names.
LEMMA CompareNames ==
  ASSUME pre.state = "complete"
  PROVE  \/ Compare = Effect("none", {}) /\ post.state = "complete"
              /\ Fingerprint(pre.at) = Fingerprint(post.at)
         \/ Compare \in {Effect("protected", {}), Effect("unknown", {})}
         \/ post.state = "complete"
              /\ Compare \in {Effect("unknown", ChangedPaths), Effect("observed", ChangedPaths)}
  BY DEF Compare, ChangedPaths

LEMMA PathFinite == IsFiniteSet(Path)
  <1> DEFINE n == Len(Order)
             f == [k \in 1..n |-> Order[k]]
  <1>1. IsFiniteSet(1..n)
    BY EvidenceAssumption, FS_Interval
  <1>2. Path = {f[k] : k \in 1..n}
    BY DEF Path
  <1>3. f \in Surjection(1..n, Path)
    BY <1>2 DEF Surjection
  <1> HIDE DEF f, n
  <1> QED
    BY <1>1, <1>3, FS_Surjection

\* A record that does not say that it lacks paths has all of them.
LEMMA RecordComplete ==
  ASSUME NEW effect, effect.paths \subseteq Path, NEW paths \in Listings(effect.paths)
  PROVE  /\ paths \subseteq effect.paths
         /\ ~ Unlisted(TerminalRecord(effect, paths)) => paths = effect.paths
  <1> DEFINE record == TerminalRecord(effect, paths)
  <1>1. paths \subseteq effect.paths
    BY DEF Listings
  <1>2. IsFiniteSet(effect.paths)
    BY PathFinite, FS_Subset
  <1>3. /\ IsFiniteSet(paths) /\ Cardinality(paths) <= Cardinality(effect.paths)
        /\ Cardinality(paths) = Cardinality(effect.paths) => paths = effect.paths
    BY <1>1, <1>2, FS_Subset
  <1>4. Cardinality(paths) \in Nat /\ Cardinality(effect.paths) \in Nat
    BY <1>2, <1>3, FS_CardinalityType
  <1>5. record.kind = "terminal" /\ record.paths = paths /\ record.total = Cardinality(effect.paths)
    BY DEF TerminalRecord
  <1> HIDE DEF record
  <1>6. ~ Unlisted(record) => paths = effect.paths
    BY <1>3, <1>4, <1>5 DEF Unlisted
  <1> QED
    BY <1>1, <1>6 DEF record

\* What a command's record says a path was before is what the command saw.
LEMMA BeforeIs ==
  ASSUME Faithful(pre), NEW effect, NEW paths, NEW p \in Path
  PROVE  Before(TerminalRecord(effect, paths), p) \in {TextSeen(pre, p), Unavailable}
  <1> DEFINE record == TerminalRecord(effect, paths)
  <1>1. /\ record.kind = "terminal" /\ record.images = pre.images /\ record.dirty = Dirty(pre.at)
        /\ record.tree = pre.at.head.tree
        /\ record.created = CreatedBy(effect.paths)
    BY DEF TerminalRecord
  <1>2. PathState(p, pre).text = TextSeen(pre, p)
        /\ (pre.at.kind[p] = "clean" => TextSeen(pre, p) = pre.at.head.tree[p])
    BY FaithfulSays
  <1>3. p \in record.created => TextSeen(pre, p) = Absent
    BY <1>1, <1>2 DEF CreatedBy
  <1>4. p \notin record.dirty => TextSeen(pre, p) = record.tree[p]
    BY <1>1, <1>2 DEF Dirty
  <1>5. pre.images[p].kind # "none" => pre.images[p].text = TextSeen(pre, p)
    BY DEF TextSeen
  <1> HIDE DEF record
  <1>6. BeforeCommand(record, p) \in {TextSeen(pre, p), Unavailable}
    BY <1>1, <1>3, <1>4, <1>5 DEF BeforeCommand, Persisted
  <1> QED
    BY <1>1, <1>6 DEF Before, record

------------------------------------------------------------------------------
(* The steps. *)

LEMMA SameTold ==
  ASSUME UNCHANGED mutations, NEW p
  PROVE  /\ origin'[p] = origin[p] => (Told(p)' <=> Told(p))
         /\ p \in Listed' <=> p \in Listed
         /\ Listing(p)' = Listing(p)
         /\ (Covered(p)' <=> Covered(p)) /\ (\A t : Recorded(p, t)' <=> Recorded(p, t))
  <1>1. FirstListing(p)' = FirstListing(p)
    BY DEF FirstListing
  <1>2. Forced(p)' <=> Forced(p)
    BY <1>1 DEF Forced, Unlisted
  <1>3. DiffBaseline(p)' = DiffBaseline(p)
    BY <1>1, <1>2 DEF DiffBaseline, Before, PatchBaseline, BeforeCommand
  <1>4. p \in Listed' <=> p \in Listed
    BY <1>1 DEF Listed
  <1>5. Limited' <=> Limited
    BY DEF Limited, Unlisted
  <1>6. origin'[p] = origin[p] => (Told(p)' <=> Told(p))
    BY <1>3, <1>4, <1>5 DEF Told
  <1>7. Listing(p)' = Listing(p)
    BY DEF Listing
  <1>8. Covered(p)' <=> Covered(p)
    BY DEF Covered, Covers
  <1>9. \A t : Recorded(p, t)' <=> Recorded(p, t)
    BY DEF Recorded, Covers
  <1> QED
    BY <1>4, <1>6, <1>7, <1>8, <1>9

LEMMA SameSeen ==
  ASSUME UNCHANGED pre, NEW p
  PROVE  /\ TextSeen(pre, p)' = TextSeen(pre, p) /\ WorldSeen(pre)' = WorldSeen(pre)
         /\ Faithful(pre)' <=> Faithful(pre)
         /\ Fingerprint(pre.at)' = Fingerprint(pre.at)
         /\ Kept(pre.images, p)' <=> Kept(pre.images, p)
  BY DEF TextSeen, WorldSeen, Faithful, Fingerprint, Kept

LEMMA SameChanged ==
  ASSUME UNCHANGED <<pre, post>>
  PROVE  ChangedPaths' = ChangedPaths
  BY DEF ChangedPaths, Candidates, Changed, PathState, CommittedState, TreeState

\* Steps that are not of the operation under way, and the user's.
LEMMA StillKept ==
  ASSUME EvInv, Texts', UNCHANGED <<start, pre, post, mutations, op, origin>>,
         op.phase \in {"launched", "exited"} => UNCHANGED <<wt, head, hidden>>,
         edited \subseteq edited', \A p \in Path \ edited' : wt'[p].text = wt[p].text
  PROVE  EvInv'
  <1>1. /\ \A p : Told(p)' <=> Told(p)
        /\ \A p : p \in Listed' <=> p \in Listed
        /\ \A p : Listing(p)' = Listing(p)
        /\ \A p : Covered(p)' <=> Covered(p)
        /\ \A p, t : Recorded(p, t)' <=> Recorded(p, t)
    BY SameTold
  <1>2. /\ \A p : TextSeen(pre, p)' = TextSeen(pre, p)
        /\ WorldSeen(pre)' = WorldSeen(pre)
        /\ Faithful(pre)' <=> Faithful(pre)
        /\ \A p : Kept(pre.images, p)' <=> Kept(pre.images, p)
        /\ ChangedPaths' = ChangedPaths
        /\ Fingerprint(pre.at)' = Fingerprint(pre.at)
        /\ Fingerprint(post.at)' = Fingerprint(post.at)
    BY SameSeen, SameChanged DEF Fingerprint
  <1>3. op.phase \in {"launched", "exited"} =>
          World' = World /\ Tree' = Tree /\ head' = head
          /\ \A p : Alike(WorldSeen(pre), World, p)' <=> Alike(WorldSeen(pre), World, p)
    BY <1>2 DEF World, Tree, Alike
  <1>4. PreExisting' = PreExisting
    BY DEF PreExisting, Dirty
  <1>5. \A p : First(p)' <=> First(p)
    BY <1>1, <1>2 DEF First
  <1>6. \A p : (Saved(p) => Saved(p)') /\ (InHand(p)' <=> InHand(p))
    BY <1>1, <1>2, <1>4 DEF Saved, InHand
  <1>7. NamedKept'
    BY <1>1 DEF EvInv, NamedKept
  <1>8. Truth'
    BY <1>1, <1>2, <1>3, <1>5 DEF EvInv, Truth
  <1>9. WorkKept'
    <2>1. \A p \in PreExisting \ edited' : wt'[p].text = wt[p].text /\ p \in PreExisting \ edited
      BY DEF PreExisting, Dirty
    <2>2. \A i \in 1..Len(mutations) : \A p : /\ Names(mutations[i], p)' <=> Names(mutations[i], p)
                 /\ Kept(mutations[i].images, p)' <=> Kept(mutations[i].images, p)
      BY DEF Names, Unlisted, Kept
    <2>3. \A p \in PreExisting' :
             Covered(p)' \/ \A i \in 1..Len(mutations') : ~ Names(mutations[i], p)'
      BY <1>1, <1>4, <2>2 DEF EvInv, WorkKept
    <2>4. \A p \in PreExisting' \ edited' : origin'[p] = None =>
            /\ \A i \in 1..Len(mutations') :
                 mutations'[i].kind = "terminal" /\ Kept(mutations[i].images, p)'
                   => mutations'[i].images[p].text = wt'[p].text
            /\ op'.phase \in Under /\ Kept(pre.images, p)' => pre'.images[p].text = wt'[p].text
      BY <1>1, <1>2, <1>4, <2>1, <2>2 DEF EvInv, WorkKept
    <2> QED
      BY <1>1, <1>2, <1>3, <1>4, <1>6, <2>3, <2>4 DEF EvInv, WorkKept
  <1> QED
    BY <1>7, <1>8, <1>9 DEF EvInv

LEMMA WrittenTexts ==
  ASSUME Texts, NEW p \in Path, NEW t \in Text, Write(p, t), origin' = origin
  PROVE  Texts' /\ head' = head /\ hidden' = hidden
         /\ \A q \in Path \ {p} : wt'[q].text = wt[q].text
  BY DEF Texts, Write

LEMMA InstallEvidence ==
  ASSUME IInv, EvInv, NEW p \in Path, NEW t \in Text, Install(p, t)
  PROVE  EvInv'
  <1>1. /\ op = NoOp /\ op' = [phase |-> "patched", path |-> p, before |-> wt[p].text]
        /\ Write(p, t) /\ Touched({p})
        /\ UNCHANGED <<mutations, pre, post, start, edited>>
    BY DEF Install, Working, watched, session
  <1>2. op.phase = None /\ op'.phase = "patched" /\ op'.path = p /\ op'.before = wt[p].text
    BY <1>1 DEF NoOp
  <1>3. \A q \in Path : origin'[q] = IF q = p /\ origin[q] = None THEN wt[q].text ELSE origin[q]
    BY <1>1 DEF Touched
  <1>4. wt[p].text # None
    BY TextsDistinct DEF EvInv, Texts
  <1>5. Texts'
    <2>1. origin' = [q \in Path |-> origin'[q]]
      BY <1>1 DEF Touched
    <2> QED
      BY <1>1, <2>1 DEF EvInv, Texts, Write
  <1>6. \A q \in Path \ {p} : wt'[q].text = wt[q].text
    BY <1>1 DEF EvInv, Texts, Write
  <1>7. /\ \A q : origin'[q] = origin[q] => (Told(q)' <=> Told(q))
        /\ \A q : q \in Listed' <=> q \in Listed
        /\ \A q : Listing(q)' = Listing(q)
        /\ \A q : Covered(q)' <=> Covered(q)
        /\ \A q, x : Recorded(q, x)' <=> Recorded(q, x)
    BY <1>1, SameTold
  <1>8. PreExisting' = PreExisting
    BY <1>1 DEF PreExisting, Dirty
  <1>9. NamedKept'
    BY <1>3, <1>4, <1>7 DEF EvInv, NamedKept
  <1>10. Truth'
    <2>1. \A q \in Path : origin'[q] # None =>
             Told(q)' \/ (q = p /\ q \notin Listed' /\ origin'[q] = wt[p].text)
      <3>1. SUFFICES ASSUME NEW q \in Path, origin'[q] # None
                     PROVE  Told(q)' \/ (q = p /\ q \notin Listed' /\ origin'[q] = wt[p].text)
        OBVIOUS
      <3>2. CASE origin[q] # None
        BY <1>2, <1>3, <1>7, <3>2 DEF EvInv, Truth
      <3>3. CASE origin[q] = None
        <4>1. q = p /\ origin'[q] = wt[p].text
          BY <1>3, <3>1, <3>3
        <4>2. q \notin Listed
          BY <3>3, ListedIs DEF EvInv, NamedKept
        <4> QED
          BY <1>7, <4>1, <4>2
      <3> QED
        BY <3>2, <3>3
    <2> QED
      BY <1>2, <1>3, <1>4, <2>1 DEF Truth, Under, Phases, None
  <1>11. WorkKept'
    <2>1. \A q \in PreExisting' :
             Covered(q)' \/ \A i \in 1..Len(mutations') : ~ Names(mutations[i], q)'
      BY <1>1, <1>7, <1>8 DEF EvInv, WorkKept, Names, Unlisted
    <2>2. \A q \in PreExisting' \ edited' : origin'[q] = None =>
            \A i \in 1..Len(mutations') :
                 mutations'[i].kind = "terminal" /\ Kept(mutations[i].images, q)'
                   => mutations'[i].images[q].text = wt'[q].text
      <3>1. \A q \in PreExisting : q \in Path
        BY DEF PreExisting, Dirty
      <3> QED
        BY <1>1, <1>3, <1>4, <1>6, <1>8, <3>1 DEF EvInv, WorkKept, Kept
    <2>3. \A q \in Path : Saved(q)' \/ (q = p /\ origin'[q] = wt[p].text)
      BY <1>1, <1>2, <1>3, <1>7, <1>8 DEF EvInv, WorkKept, Saved
    <2> QED
      BY <1>2, <2>1, <2>2, <2>3 DEF WorkKept, Under, None
  <1> QED
    BY <1>5, <1>9, <1>10, <1>11 DEF EvInv

LEMMA ReadPatchedEvidence ==
  ASSUME IInv, EvInv, NEW known \in BOOLEAN, ReadPatched(known)
  PROVE  EvInv'
  <1>1. /\ op.phase = "patched" /\ op'.phase = "result" /\ op'.path = op.path
        /\ op'.before = op.before
        /\ UNCHANGED <<wt, head, hidden, mutations, pre, post, start, edited, origin>>
    BY DEF ReadPatched, watched, session, repository
  <1>2. /\ \A q : Told(q)' <=> Told(q)
        /\ \A q : q \in Listed' <=> q \in Listed
        /\ \A q : Listing(q)' = Listing(q)
        /\ \A q : Covered(q)' <=> Covered(q)
        /\ \A q, x : Recorded(q, x)' <=> Recorded(q, x)
    BY <1>1, SameTold
  <1>3. PreExisting' = PreExisting
    BY <1>1 DEF PreExisting, Dirty
  <1>4. Texts' /\ NamedKept'
    BY <1>1, <1>2 DEF EvInv, Texts, NamedKept
  <1>5. Truth'
    BY <1>1, <1>2 DEF EvInv, Truth, Under, Phases, None
  <1>6. WorkKept'
    <2>1. \A q \in PreExisting' :
             Covered(q)' \/ \A i \in 1..Len(mutations') : ~ Names(mutations[i], q)'
      BY <1>1, <1>2, <1>3 DEF EvInv, WorkKept, Names, Unlisted
    <2>2. \A q \in PreExisting' \ edited' : origin'[q] = None =>
            \A i \in 1..Len(mutations') :
                 mutations'[i].kind = "terminal" /\ Kept(mutations[i].images, q)'
                   => mutations'[i].images[q].text = wt'[q].text
      BY <1>1, <1>3 DEF EvInv, WorkKept, Kept
    <2>3. \A q \in Path : Saved(q)' \/ (q = op.path /\ origin'[q] = op.before)
      BY <1>1, <1>2, <1>3 DEF EvInv, WorkKept, Saved
    <2> QED
      BY <1>1, <2>1, <2>2, <2>3 DEF WorkKept, Under, None
  <1> QED
    BY <1>4, <1>5, <1>6 DEF EvInv

\* What a record held it goes on to hold.
LEMMA RecordedGrows ==
  ASSUME IInv, NEW record, mutations' = Append(mutations, record), NEW p
  PROVE  /\ Covered(p) \/ Covers(record, p) => Covered(p)'
         /\ \A t : Recorded(p, t) => Recorded(p, t)'
         /\ Covers(record, p) =>
              Recorded(p, IF record.kind = "terminal" THEN record.images[p].text
                                                      ELSE record.before[p])'
  <1> PICK m : m = Len(mutations)
    OBVIOUS
  <1>1. /\ m \in Nat /\ Len(mutations') = m + 1 /\ mutations'[m + 1] = record
        /\ \A i \in 1..m : mutations'[i] = mutations[i]
    BY ListingGrows
  <1>2. ASSUME Covered(p)
        PROVE  Covered(p)'
    <2>1. PICK i \in 1..m : Covers(mutations[i], p)
      BY <1>2 DEF Covered
    <2>2. i \in 1..Len(mutations') /\ mutations'[i] = mutations[i]
      BY <1>1
    <2> QED
      BY <2>1, <2>2 DEF Covered, Covers, Kept
  <1>3. ASSUME Covers(record, p)
        PROVE  Covered(p)'
               /\ Recorded(p, IF record.kind = "terminal" THEN record.images[p].text
                                                          ELSE record.before[p])'
    <2>1. m + 1 \in 1..Len(mutations')
      BY <1>1
    <2> QED
      BY <1>1, <1>3, <2>1 DEF Covered, Recorded, Covers, Kept
  <1>4. ASSUME NEW t, Recorded(p, t)
        PROVE  Recorded(p, t)'
    <2>1. PICK i \in 1..m : /\ Covers(mutations[i], p)
                            /\ t = IF mutations[i].kind = "terminal" THEN mutations[i].images[p].text
                                                                     ELSE mutations[i].before[p]
      BY <1>4 DEF Recorded
    <2>2. i \in 1..Len(mutations') /\ mutations'[i] = mutations[i]
      BY <1>1
    <2> QED
      BY <2>1, <2>2 DEF Recorded, Covers, Kept
  <1> QED
    BY <1>2, <1>3, <1>4

\* What is left to show once a record has joined the others.
LEMMA RecordKept ==
  ASSUME IInv, IInv', EvInv, NEW record, mutations' = Append(mutations, record), op' = NoOp,
         UNCHANGED <<wt, head, origin, edited, start>>,
         \A p \in Path : p \in record.paths => origin[p] # None,
         \A p \in Path : origin[p] # None =>
           \/ Told(p)
           \/ /\ p \notin Listed
              /\ \/ p \in record.paths /\ Before(record, p) \in {origin[p], Unavailable}
                 \/ p \notin record.paths /\ Unlisted(record),
         \A p \in PreExisting : Covered(p) \/ Covers(record, p) \/
            (~ Names(record, p) /\ \A i \in 1..Len(mutations) : ~ Names(mutations[i], p)),
         \A p \in PreExisting \ edited :
            origin[p] = None /\ record.kind = "terminal" /\ Kept(record.images, p)
              => record.images[p].text = wt[p].text,
         \A p \in Path : \/ Saved(p)
                         \/ /\ Covers(record, p)
                            /\ origin[p] = IF record.kind = "terminal" THEN record.images[p].text
                                                                       ELSE record.before[p]
  PROVE  EvInv'
  <1> PICK m : m = Len(mutations)
    OBVIOUS
  <1>1. /\ m \in Nat /\ Len(mutations') = m + 1 /\ mutations'[m + 1] = record
        /\ \A i \in 1..m : mutations'[i] = mutations[i]
    BY ListingGrows
  <1>2. Texts'
    BY DEF EvInv, Texts
  <1>3. NamedKept'
    BY NamedGrows DEF EvInv
  <1>4. \A p \in Path : origin'[p] # None => Told(p)'
    BY <1>3, ToldOn, ToldNew DEF EvInv
  <1>5. op'.phase = None /\ None \notin {"patched", "result", "launched", "exited", "observed"}
    BY DEF NoOp, None
  <1>6. Truth'
    BY <1>4, <1>5 DEF Truth, Under, Phases
  <1>7. PreExisting' = PreExisting
    BY DEF PreExisting, Dirty
  <1>8. ASSUME NEW p \in PreExisting
        PROVE  Covered(p)' \/ \A i \in 1..Len(mutations') : ~ Names(mutations[i], p)'
    <2>1. CASE Covered(p) \/ Covers(record, p)
      BY <2>1, RecordedGrows
    <2>2. CASE ~ Names(record, p) /\ \A i \in 1..m : ~ Names(mutations[i], p)
      <3>1. ASSUME NEW i \in 1..Len(mutations')
            PROVE  ~ Names(mutations[i], p)'
        <4>1. \/ i = m + 1 /\ mutations'[i] = record
              \/ i \in 1..m /\ mutations'[i] = mutations[i]
          BY <1>1
        <4> QED
          BY <2>2, <4>1 DEF Names, Unlisted
      <3> QED
        BY <3>1
    <2> QED
      BY <2>1, <2>2
  <1>9. ASSUME NEW p \in PreExisting \ edited, origin[p] = None, NEW i \in 1..Len(mutations'),
               mutations'[i].kind = "terminal", Kept(mutations[i].images, p)'
        PROVE  mutations'[i].images[p].text = wt[p].text
    <2>1. \/ i = m + 1 /\ mutations'[i] = record
          \/ i \in 1..m /\ mutations'[i] = mutations[i]
      BY <1>1
    <2> QED
      BY <1>9, <2>1 DEF EvInv, WorkKept, Kept
  <1>10. ASSUME NEW p \in Path
         PROVE  Saved(p)'
    <2>1. SUFFICES ASSUME p \in PreExisting \ edited, origin[p] # None
                   PROVE  Recorded(p, origin[p])'
      BY <1>7 DEF Saved
    <2>2. PICK t : t = origin[p]
      OBVIOUS
    <2>3. Recorded(p, t)'
      BY <2>1, <2>2, RecordedGrows DEF Saved
    <2> QED
      BY <2>2, <2>3 DEF Recorded
  <1>11. WorkKept'
    BY <1>5, <1>7, <1>8, <1>9, <1>10 DEF WorkKept, Under
  <1> QED
    BY <1>2, <1>3, <1>6, <1>11 DEF EvInv

LEMMA RecordPatchEvidence ==
  ASSUME IInv, IInv', EvInv, RecordPatch
  PROVE  EvInv'
  <1> PICK record : record = PatchRecord(op.path, op.before, op.print)
    OBVIOUS
  <1>1. /\ op.phase = "result" /\ op' = NoOp /\ mutations' = Append(mutations, record)
        /\ UNCHANGED <<wt, head, origin, edited, start>>
    BY DEF RecordPatch, repository, ghosts, watched
  <1>2. /\ record.kind = "patch" /\ record.paths = {op.path} /\ record.before[op.path] = op.before
        /\ ~ Unlisted(record)
    BY DEF PatchRecord, Unlisted
  <1>3. /\ op.path \in Path /\ origin[op.path] # None
        /\ \A p \in Path : origin[p] # None =>
             Told(p) \/ (p = op.path /\ p \notin Listed /\ origin[p] = op.before)
    BY <1>1 DEF EvInv, Truth
  <1>4. \A p \in Path : Saved(p) \/ (p = op.path /\ origin[p] = op.before)
    BY <1>1 DEF EvInv, WorkKept
  <1>5. Before(record, op.path) = op.before
    BY <1>2 DEF Before, PatchBaseline
  <1>6. \A p : Names(record, p) => Covers(record, p)
    BY <1>2 DEF Names, Covers
  <1>7. \A p \in Path : origin[p] # None =>
           \/ Told(p)
           \/ /\ p \notin Listed
              /\ \/ p \in record.paths /\ Before(record, p) \in {origin[p], Unavailable}
                 \/ p \notin record.paths /\ Unlisted(record)
    BY <1>2, <1>3, <1>5
  <1>8. \A p \in PreExisting : Covered(p) \/ Covers(record, p) \/
            (~ Names(record, p) /\ \A i \in 1..Len(mutations) : ~ Names(mutations[i], p))
    BY <1>6 DEF EvInv, WorkKept
  <1>9. \A p \in Path : \/ Saved(p)
                        \/ /\ Covers(record, p)
                           /\ origin[p] = IF record.kind = "terminal" THEN record.images[p].text
                                                                      ELSE record.before[p]
    BY <1>2, <1>4 DEF Covers
  <1> QED
    BY <1>1, <1>2, <1>3, <1>7, <1>8, <1>9, RecordKept

LEMMA ApplyEvidence ==
  ASSUME IInv, IInv', EvInv, Apply
  PROVE  EvInv'
  <1>1. /\ op.phase = "observed" /\ op' = NoOp
        /\ UNCHANGED <<wt, head, origin, edited, start, pre, post>>
    BY DEF Apply, repository, ghosts, watched
  <1>2. /\ Faithful(pre) /\ pre.state = "complete" /\ post.moved \subseteq Path
        /\ \A p \in Path :
             /\ origin[p] # None => Told(p) \/ First(p)
             /\ post.state = "complete" =>
                  /\ origin[p] # None => Told(p) \/ p \in ChangedPaths
                  /\ p \in ChangedPaths => origin[p] # None
                  /\ Fingerprint(pre.at) = Fingerprint(post.at) /\ origin[p] # None => Told(p)
    BY <1>1 DEF EvInv, Truth, Under
  <1>3. CASE Compare.outcome = "none" /\ mutations' = mutations
    <2>1. post.state = "complete" /\ Fingerprint(pre.at) = Fingerprint(post.at)
      BY <1>3, CompareSays
    <2>2. /\ \A q : Told(q)' <=> Told(q)
          /\ \A q : Listing(q)' = Listing(q)
          /\ \A q : Covered(q)' <=> Covered(q)
          /\ \A q, x : Recorded(q, x)' <=> Recorded(q, x)
      BY <1>1, <1>3, SameTold
    <2>3. PreExisting' = PreExisting
      BY <1>1 DEF PreExisting, Dirty
    <2>4. op'.phase = None /\ None \notin {"patched", "result", "launched", "exited", "observed"}
      BY <1>1 DEF NoOp, None
    <2>5. Texts' /\ NamedKept'
      BY <1>1, <2>2 DEF EvInv, Texts, NamedKept
    <2>6. Truth'
      BY <1>1, <1>2, <2>1, <2>2, <2>4 DEF Truth, Under, Phases
    <2>7. \A q \in PreExisting' :
             Covered(q)' \/ \A i \in 1..Len(mutations') : ~ Names(mutations[i], q)'
      BY <1>3, <2>2, <2>3 DEF EvInv, WorkKept, Names, Unlisted
    <2>8. \A q \in PreExisting' \ edited' : origin'[q] = None =>
            \A i \in 1..Len(mutations') :
                 mutations'[i].kind = "terminal" /\ Kept(mutations[i].images, q)'
                   => mutations'[i].images[q].text = wt'[q].text
      BY <1>1, <1>3, <2>3 DEF EvInv, WorkKept, Kept
    <2>9. \A q \in Path : Saved(q)'
      BY <1>1, <2>1, <2>2, <2>3 DEF EvInv, WorkKept, Saved
    <2>10. WorkKept'
      BY <2>4, <2>7, <2>8, <2>9 DEF WorkKept, Under
    <2> QED
      BY <2>5, <2>6, <2>10 DEF EvInv
  <1>4. ASSUME Compare.outcome # "none", NEW paths \in Listings(Compare.paths),
               mutations' = Append(mutations, TerminalRecord(Compare, paths))
        PROVE  EvInv'
    <2>1. PICK record : record = TerminalRecord(Compare, paths)
      OBVIOUS
    <2>2. record.kind = "terminal" /\ record.outcome = Compare.outcome /\ record.paths = paths
          /\ record.images = pre.images
      BY <2>1 DEF TerminalRecord
    <2>3. \/ Compare.paths = {} /\ Compare.outcome \in {"protected", "unknown"}
          \/ post.state = "complete" /\ Compare.paths = ChangedPaths
      BY <1>2, <1>4, CompareNames DEF Effect
    <2>4. Compare.paths \subseteq Path
      BY <1>2, <2>3 DEF ChangedPaths, Candidates, Effect
    <2>5. paths \subseteq Compare.paths /\ (~ Unlisted(record) => paths = Compare.paths)
      BY <2>1, <2>4, RecordComplete
    <2>6. \A p \in Path : p \in record.paths => origin[p] # None
      BY <1>2, <2>2, <2>3, <2>5
    <2>7. ASSUME NEW p \in Path, origin[p] # None, ~ Told(p)
          PROVE  /\ p \notin Listed
                 /\ \/ p \in record.paths /\ Before(record, p) \in {origin[p], Unavailable}
                    \/ p \notin record.paths /\ Unlisted(record)
      <3>1. First(p)
        BY <1>2, <2>7
      <3>2. Before(record, p) \in {TextSeen(pre, p), Unavailable}
        BY <1>2, <2>1, BeforeIs
      <3>3. p \notin record.paths => Unlisted(record)
        <4>1. CASE Compare.paths = {} /\ Compare.outcome \in {"protected", "unknown"}
          BY <2>2, <2>5, <4>1 DEF Unlisted
        <4>2. CASE post.state = "complete" /\ Compare.paths = ChangedPaths
          BY <1>2, <2>2, <2>5, <2>7, <4>2
        <4> QED
          BY <2>3, <4>1, <4>2
      <3> QED
        BY <3>1, <3>2, <3>3 DEF First
    <2>8. \A p \in PreExisting : Covered(p) \/ Covers(record, p)
      BY <1>1, <2>2 DEF EvInv, WorkKept, Under, Covers
    <2>9. \A p \in PreExisting \ edited :
            origin[p] = None /\ record.kind = "terminal" /\ Kept(record.images, p)
              => record.images[p].text = wt[p].text
      BY <1>1, <2>2 DEF EvInv, WorkKept, Under
    <2>10. \A p \in Path : \/ Saved(p)
                           \/ /\ Covers(record, p)
                              /\ origin[p] = IF record.kind = "terminal"
                                               THEN record.images[p].text ELSE record.before[p]
      BY <1>1, <2>2 DEF EvInv, WorkKept, Under, Covers, InHand
    <2>11. mutations' = Append(mutations, record)
      BY <1>4, <2>1
    <2> QED
      BY <1>1, <2>6, <2>7, <2>8, <2>9, <2>10, <2>11, RecordKept
  <1> QED
    BY <1>3, <1>4 DEF Apply

\* Nothing that the evidence is about changes.
LEMMA NothingTouched ==
  ASSUME EvInv,
         UNCHANGED <<wt, head, hidden, start, pre, post, mutations, op, origin, edited>>
  PROVE  EvInv'
  <1>1. Texts'
    BY DEF EvInv, Texts
  <1> QED
    BY <1>1, StillKept

\* A path nobody names yet has no baseline.
LEMMA UnnamedNeeded ==
  ASSUME IInv, NEW p \in PreExisting, \A i \in 1..Len(mutations) : ~ Names(mutations[i], p)
  PROVE  p \in Needed
  <1>1. {k \in DOMAIN mutations : p \in mutations[k].paths \/ Unlisted(mutations[k])} = {}
    BY Domain DEF IInv, Records, Names
  <1>2. PriorBaseline(p) = Unavailable
    BY <1>1 DEF PriorBaseline, Earliest
  <1> QED
    BY <1>2 DEF Needed

LEMMA LaunchEvidence ==
  ASSUME IInv, EvInv, Launch
  PROVE  EvInv'
  <1> PICK o : o = ObservedBefore
    OBVIOUS
  <1>1. /\ op = NoOp /\ op' = [phase |-> "launched"] /\ pre' = o
        /\ Reconstructible(Images(Collected), Needed)
        /\ UNCHANGED <<wt, head, hidden, start, mutations, origin, edited>>
    BY DEF Launch, Working, repository, session, ghosts
  <1>2. op.phase = None /\ op'.phase = "launched"
    BY <1>1 DEF NoOp
  <1>3. Faithful(o) /\ WorldSeen(o) = World /\ o.state = "complete"
        /\ o.images = Images(Collected)
    BY ObservedNow DEF EvInv, ObservedBefore, NoObservation
  <1>4. Faithful(pre)' /\ WorldSeen(pre)' = World' /\ pre'.state = "complete"
    BY <1>1, <1>3 DEF Faithful, Fingerprint, WorldSeen, TextSeen, World, Tree
  <1>5. /\ \A p : Told(p)' <=> Told(p)
        /\ \A p : Listing(p)' = Listing(p)
        /\ \A p : Covered(p)' <=> Covered(p)
        /\ \A p, t : Recorded(p, t)' <=> Recorded(p, t)
    BY <1>1, SameTold
  <1>6. PreExisting' = PreExisting /\ PreExisting \subseteq Path
    BY <1>1 DEF PreExisting, Dirty
  <1>7. Texts' /\ NamedKept'
    BY <1>1, <1>5 DEF EvInv, Texts, NamedKept
  <1>8. Truth'
    BY <1>1, <1>2, <1>4, <1>5 DEF EvInv, Truth, Under, Phases, None
  <1>9. ASSUME NEW p \in PreExisting
        PROVE  Covered(p) \/ Kept(o.images, p)
    <2>1. CASE \A i \in 1..Len(mutations) : ~ Names(mutations[i], p)
      <3>1. p \in Needed
        BY <2>1, UnnamedNeeded
      <3> QED
        BY <1>1, <1>3, <3>1 DEF Reconstructible, Kept
    <2> QED
      BY <2>1 DEF EvInv, WorkKept
  <1>10. ASSUME NEW p \in Path, Kept(o.images, p)
         PROVE  o.images[p].text = wt[p].text
    <2>1. WorldSeen(o).text[p] = World.text[p]
      BY <1>3
    <2> QED
      BY <1>10, <2>1 DEF Kept, WorldSeen, TextSeen, World, Tree
  <1>11. WorkKept'
    <2>1. \A p \in PreExisting' :
             Covered(p)' \/ \A i \in 1..Len(mutations') : ~ Names(mutations[i], p)'
      BY <1>1, <1>5, <1>6 DEF EvInv, WorkKept, Names, Unlisted
    <2>2. \A p \in PreExisting' : Covered(p)' \/ Kept(pre.images, p)'
      BY <1>1, <1>5, <1>6, <1>9 DEF Kept
    <2>3. \A p \in PreExisting' \ edited' : origin'[p] = None =>
            /\ \A i \in 1..Len(mutations') :
                 mutations'[i].kind = "terminal" /\ Kept(mutations[i].images, p)'
                   => mutations'[i].images[p].text = wt'[p].text
            /\ Kept(pre.images, p)' => pre'.images[p].text = wt'[p].text
      BY <1>1, <1>6, <1>10 DEF EvInv, WorkKept, Kept
    <2>4. \A p \in Path : Saved(p)'
      BY <1>1, <1>2, <1>5, <1>6 DEF EvInv, WorkKept, Saved
    <2> QED
      BY <1>2, <2>1, <2>2, <2>3, <2>4 DEF WorkKept, Under, None
  <1> QED
    BY <1>7, <1>8, <1>11 DEF EvInv

\* What a running command does to the repository.
LEMMA RunDoes ==
  ASSUME IInv, EvInv, NEW e \in Effects, Run(e)
  PROVE  /\ Texts'
         /\ head' = head \/ (head'.id # head.id /\ head'.tree = Tree')
         /\ \A p \in Path :
              origin'[p] = IF ~ Alike(World, World', p) /\ origin[p] = None
                             THEN wt[p].text ELSE origin[p]
         /\ op.phase = "launched" /\ op'.phase = "exited"
         /\ UNCHANGED <<pre, start, mutations, edited>>
  <1> PICK t : t = [p \in Path |-> IF p \in DOMAIN e.text THEN e.text[p] ELSE Tree[p]]
    OBVIOUS
  <1>1. /\ wt' = [p \in Path |-> [wt[p] EXCEPT !.text = t[p]]]
        /\ head' = IF e.commit /\ t # head.tree
                     THEN [id |-> head.id + 1, tree |-> t] ELSE head
        /\ Touched({p \in Path : t[p] # Tree[p] \/ head'.tree[p] # head.tree[p]})
        /\ op.phase = "launched" /\ op'.phase = "exited"
        /\ UNCHANGED <<pre, start, mutations, edited>>
    BY DEF Run, watched, session
  <1>2. \A p \in Path : t[p] \in Text
    BY CompletionAssumption DEF EvInv, Texts, Tree
  <1>3. t = [p \in Path |-> t[p]]
    OBVIOUS
  <1>4. ASSUME NEW p \in Path
        PROVE  wt'[p].text = t[p] /\ wt'[p] = [text |-> wt'[p].text, stamp |-> wt'[p].stamp]
    <2>1. wt[p] = [text |-> wt[p].text, stamp |-> wt[p].stamp]
      BY DEF EvInv, Texts
    <2>2. wt'[p] = [wt[p] EXCEPT !.text = t[p]]
      BY <1>1
    <2> QED
      BY <2>1, <2>2
  <1>5. Tree' = t
    BY <1>3, <1>4 DEF Tree
  <1>6. head'.id \in Nat /\ head' = [id |-> head'.id, tree |-> head'.tree]
        /\ (head' = head \/ (head'.id # head.id /\ head'.tree = t))
    <2>1. CASE head' = head
      BY <2>1 DEF EvInv, Texts
    <2>2. CASE head' = [id |-> head.id + 1, tree |-> t]
      <3>1. head'.id = head.id + 1 /\ head'.tree = t
        BY <2>2
      <3>2. head.id \in Nat
        BY DEF EvInv, Texts
      <3> QED
        BY <2>2, <3>1, <3>2
    <2> QED
      BY <1>1, <2>1, <2>2
  <1>7. wt' = [p \in Path |-> [text |-> wt'[p].text, stamp |-> wt'[p].stamp]]
    BY <1>1, <1>4
  <1>8. origin' = [p \in Path |-> origin'[p]]
    BY <1>1 DEF Touched
  <1>9. Texts'
    BY <1>2, <1>4, <1>6, <1>7, <1>8 DEF Texts
  <1>10. \A p \in Path : Alike(World, World', p) <=>
                           t[p] = Tree[p] /\ head'.tree[p] = head.tree[p]
    BY <1>5 DEF Alike, World
  <1>11. \A p \in Path :
              origin'[p] = IF ~ Alike(World, World', p) /\ origin[p] = None
                             THEN wt[p].text ELSE origin[p]
    BY <1>1, <1>10 DEF Touched
  <1> QED
    BY <1>1, <1>5, <1>6, <1>9, <1>11

LEMMA RunEvidence ==
  ASSUME IInv, EvInv, NEW e \in Effects, Run(e)
  PROVE  EvInv'
  <1>1. /\ Texts'
        /\ head' = head \/ (head'.id # head.id /\ head'.tree = Tree')
        /\ \A p \in Path :
             origin'[p] = IF ~ Alike(World, World', p) /\ origin[p] = None
                            THEN wt[p].text ELSE origin[p]
        /\ op.phase = "launched" /\ op'.phase = "exited"
        /\ UNCHANGED <<pre, start, mutations, edited>>
    BY RunDoes
  <1>2. /\ \A p \in Path : origin[p] # None => Told(p)
        /\ Faithful(pre) /\ pre.state = "complete" /\ WorldSeen(pre) = World
    BY <1>1 DEF EvInv, Truth, Under
  <1>3. /\ \A p : origin'[p] = origin[p] => (Told(p)' <=> Told(p))
        /\ \A p : p \in Listed' <=> p \in Listed
        /\ \A p : Listing(p)' = Listing(p)
        /\ \A p : Covered(p)' <=> Covered(p)
        /\ \A p, t : Recorded(p, t)' <=> Recorded(p, t)
    BY <1>1, SameTold
  <1>4. /\ \A p : TextSeen(pre, p)' = TextSeen(pre, p)
        /\ WorldSeen(pre)' = World /\ pre'.at.head = head
        /\ Faithful(pre)' /\ pre'.state = "complete"
        /\ \A p : Kept(pre.images, p)' <=> Kept(pre.images, p)
    <2>1. pre.at.head = head
      BY <1>2 DEF WorldSeen, World
    <2> QED
      BY <1>1, <1>2, <2>1, SameSeen
  <1>5. \A p : Alike(WorldSeen(pre), World, p)' <=> Alike(World, World', p)
    BY <1>4 DEF Alike
  <1>6. PreExisting' = PreExisting /\ PreExisting \subseteq Path
    BY <1>1 DEF PreExisting, Dirty
  <1>7. \A p \in Path : wt[p].text # None /\ TextSeen(pre, p) = wt[p].text
    <2>1. \A p \in Path : WorldSeen(pre).text[p] = World.text[p]
      BY <1>2
    <2> QED
      BY <2>1, TextsDistinct DEF EvInv, Texts, WorldSeen, World, Tree
  <1>8. \A p \in Path : origin[p] = None => p \notin Listed
    BY ListedIs DEF EvInv, NamedKept
  <1>9. NamedKept'
    BY <1>1, <1>3, <1>7 DEF EvInv, NamedKept
  <1>10. Truth'
    <2>1. ASSUME NEW p \in Path, origin'[p] # None
          PROVE  Told(p)' \/ (First(p)' /\ ~ Alike(WorldSeen(pre), World, p)')
      <3>1. CASE origin[p] # None
        BY <1>1, <1>2, <1>3, <3>1
      <3>2. CASE origin[p] = None
        BY <1>1, <1>3, <1>4, <1>5, <1>7, <1>8, <2>1, <3>2 DEF First
      <3> QED
        BY <3>1, <3>2
    <2>2. ASSUME NEW p \in Path, ~ Alike(WorldSeen(pre), World, p)'
          PROVE  origin'[p] # None
      BY <1>1, <1>5, <1>7, <2>2
    <2>3. head' = pre'.at.head \/ (head'.id # pre'.at.head.id /\ head'.tree = Tree')
      BY <1>1, <1>4
    <2> QED
      BY <1>1, <1>4, <2>1, <2>2, <2>3 DEF Truth, Under, Phases, None
  <1>11. ASSUME NEW p \in PreExisting \ edited, origin[p] = None
         PROVE  /\ \A i \in 1..Len(mutations) :
                     mutations[i].kind = "terminal" /\ Kept(mutations[i].images, p)
                       => mutations[i].images[p].text = wt[p].text
                /\ Kept(pre.images, p) => pre.images[p].text = wt[p].text
    BY <1>1, <1>11 DEF EvInv, WorkKept, Under
  <1>12. \A p \in PreExisting : Covered(p) \/ Kept(pre.images, p)
    BY <1>1 DEF EvInv, WorkKept, Under
  <1>13. ASSUME NEW p \in PreExisting \ edited, origin[p] = None, Covered(p)
         PROVE  Recorded(p, wt[p].text)
    <2>1. PICK i \in 1..Len(mutations) : Covers(mutations[i], p)
      BY <1>13 DEF Covered
    <2>2. p \in Path
      BY <1>6
    <2>3. p \notin mutations[i].paths
      BY <1>13, <2>2 DEF EvInv, NamedKept, Listing
    <2> QED
      BY <1>11, <1>13, <2>1, <2>3 DEF Covers, Recorded
  <1>14. WorkKept'
    <2>1. \A p \in PreExisting' :
             Covered(p)' \/ \A i \in 1..Len(mutations') : ~ Names(mutations[i], p)'
      BY <1>1, <1>3, <1>6 DEF EvInv, WorkKept, Names, Unlisted
    <2>2. \A p \in PreExisting' : Covered(p)' \/ Kept(pre.images, p)'
      BY <1>3, <1>4, <1>6, <1>12
    <2>3. ASSUME NEW p \in PreExisting' \ edited', origin'[p] = None
          PROVE  /\ \A i \in 1..Len(mutations') :
                      mutations'[i].kind = "terminal" /\ Kept(mutations[i].images, p)'
                        => mutations'[i].images[p].text = wt'[p].text
                 /\ Kept(pre.images, p)' => pre'.images[p].text = wt'[p].text
      <3>1. p \in PreExisting \ edited /\ p \in Path
        BY <1>1, <1>6
      <3>2. origin[p] = None /\ Alike(World, World', p)
        BY <1>1, <1>7, <2>3, <3>1
      <3>3. wt'[p].text = wt[p].text
        BY <3>1, <3>2 DEF Alike, World, Tree
      <3> QED
        BY <1>1, <1>11, <3>1, <3>2, <3>3 DEF Kept
    <2>4. ASSUME NEW p \in Path, ~ Saved(p)'
          PROVE  InHand(p)' /\ ~ Alike(WorldSeen(pre), World, p)'
      <3>1. p \in PreExisting \ edited /\ origin'[p] # None /\ ~ Recorded(p, origin'[p])
        BY <1>1, <1>6, <2>4 DEF Saved, Recorded, Covers, Kept
      <3>2. CASE origin[p] # None
        <4>1. origin'[p] = origin[p] /\ Saved(p)
          BY <1>1, <3>2 DEF EvInv, WorkKept
        <4> QED
          BY <3>1, <3>2, <4>1 DEF Saved
      <3>3. CASE origin[p] = None
        <4>1. origin'[p] = wt[p].text /\ ~ Alike(World, World', p)
          BY <1>1, <3>1, <3>3
        <4>2. Kept(pre.images, p)
          BY <1>12, <1>13, <3>1, <3>3, <4>1
        <4>3. pre.images[p].text = wt[p].text
          BY <1>11, <3>1, <3>3, <4>2
        <4> QED
          BY <1>1, <1>4, <1>5, <4>1, <4>2, <4>3 DEF InHand, Under
      <3> QED
        BY <3>2, <3>3
    <2> QED
      BY <1>1, <2>1, <2>2, <2>3, <2>4 DEF WorkKept, Under, None
  <1> QED
    BY <1>1, <1>9, <1>10, <1>14 DEF EvInv

\* The paths shown to have changed are those that did.
ChangedTrue ==
  /\ Faithful(pre) /\ Faithful(post) /\ post.images = NoImage
  /\ post.moved = Moved(pre.at.head, post.at.head)
  /\ Stepped(pre.at.head, WorldSeen(post))
  => \A p \in Path : p \in ChangedPaths <=> ~ Alike(WorldSeen(pre), WorldSeen(post), p)

LEMMA ChangedBefore == ChangedTrue
  BY ChangedIs DEF ChangedTrue

LEMMA ChangedAfter == ChangedTrue'
  BY ChangedBefore, PTL

LEMMA ObserveEvidence ==
  ASSUME IInv, EvInv, NEW o \in {ObservedAfter, Unknown}, Observe(o)
  PROVE  EvInv'
  <1>1. /\ op.phase = "exited" /\ op'.phase = "observed" /\ post' = o
        /\ UNCHANGED <<wt, head, hidden, pre, start, mutations, origin, edited>>
    BY DEF Observe, repository, session
  <1>2. /\ Faithful(pre) /\ pre.state = "complete"
        /\ head = pre.at.head \/ (head.id # pre.at.head.id /\ head.tree = Tree)
        /\ \A p \in Path :
             /\ origin[p] # None => Told(p) \/ (First(p) /\ ~ Alike(WorldSeen(pre), World, p))
             /\ ~ Alike(WorldSeen(pre), World, p) => origin[p] # None
    BY <1>1 DEF EvInv, Truth, Under
  <1>3. /\ \A p : Told(p)' <=> Told(p)
        /\ \A p : p \in Listed' <=> p \in Listed
        /\ \A p : Listing(p)' = Listing(p)
        /\ \A p : Covered(p)' <=> Covered(p)
        /\ \A p, t : Recorded(p, t)' <=> Recorded(p, t)
    BY <1>1, SameTold
  <1>4. /\ \A p : TextSeen(pre, p)' = TextSeen(pre, p)
        /\ WorldSeen(pre)' = WorldSeen(pre)
        /\ Faithful(pre)' <=> Faithful(pre)
        /\ \A p : Kept(pre.images, p)' <=> Kept(pre.images, p)
        /\ Fingerprint(pre.at)' = Fingerprint(pre.at)
    BY <1>1, SameSeen
  <1>5. PreExisting' = PreExisting /\ PreExisting \subseteq Path
    BY <1>1 DEF PreExisting, Dirty
  <1>6. o.moved \subseteq Path /\ (o.state = "complete" => o = ObservedAfter)
    BY DEF ObservedAfter, Unknown, NoObservation, Moved
  <1>7. ASSUME o = ObservedAfter
        PROVE  \A p \in Path : p \in ChangedPaths' <=> ~ Alike(WorldSeen(pre), World, p)
    <2>1. Faithful(o) /\ WorldSeen(o) = World
      BY <1>7, ObservedNow DEF EvInv
    <2>2. o.images = NoImage /\ o.at.head = head /\ o.moved = Moved(pre.at.head, head)
      BY <1>7 DEF ObservedAfter, NoObservation, Collected
    <2>3. Faithful(post)' /\ WorldSeen(post)' = World
      BY <1>1, <2>1 DEF Faithful, Fingerprint, WorldSeen, TextSeen
    <2>4. Stepped(pre.at.head, WorldSeen(post))'
      BY <1>1, <1>2, <2>3 DEF Stepped, World
    <2>5. post'.images = NoImage' /\ post'.moved = Moved(pre.at.head, post.at.head)'
      BY <1>1, <2>2 DEF NoImage, Moved
    <2>6. \A p \in Path : p \in ChangedPaths' <=> ~ Alike(WorldSeen(pre), WorldSeen(post), p)'
      BY <1>2, <1>4, <2>3, <2>4, <2>5, ChangedAfter DEF ChangedTrue
    <2> QED
      BY <1>4, <2>3, <2>6 DEF Alike
  <1>8. ASSUME o = ObservedAfter, Fingerprint(pre.at) = Fingerprint(post.at)'
        PROVE  \A p \in Path : Alike(WorldSeen(pre), World, p)
    <2>1. Faithful(o) /\ WorldSeen(o) = World
      BY <1>8, ObservedNow DEF EvInv
    <2>2. PrintOf(WorldSeen(pre)) = PrintOf(World)
      BY <1>1, <1>2, <1>8, <2>1 DEF Faithful, Fingerprint
    <2>3. IsWorld(WorldSeen(pre)) /\ IsWorld(World)
      BY PresentIsWorld DEF IsWorld, WorldSeen
    <2>4. WorldSeen(pre) = World
      BY <2>2, <2>3, PrintDetermines
    <2> QED
      BY <2>4 DEF Alike
  <1>9. Texts' /\ NamedKept'
    BY <1>1, <1>3 DEF EvInv, Texts, NamedKept
  <1>10. Truth'
    <2>1. \A p \in Path : origin'[p] # None => Told(p)' \/ First(p)'
      BY <1>1, <1>2, <1>3, <1>4 DEF First
    <2>2. ASSUME NEW p \in Path, o.state = "complete"
          PROVE  /\ origin'[p] # None => Told(p)' \/ p \in ChangedPaths'
                 /\ p \in ChangedPaths' => origin'[p] # None
                 /\ Fingerprint(pre.at)' = Fingerprint(post.at)' /\ origin'[p] # None => Told(p)'
      BY <1>1, <1>2, <1>3, <1>4, <1>6, <1>7, <1>8, <2>2
    <2> QED
      BY <1>1, <1>2, <1>4, <1>6, <2>1, <2>2 DEF Truth, Under, Phases, None
  <1>11. WorkKept'
    <2>1. \A p \in PreExisting' :
             Covered(p)' \/ \A i \in 1..Len(mutations') : ~ Names(mutations[i], p)'
      BY <1>1, <1>3, <1>5 DEF EvInv, WorkKept, Names, Unlisted
    <2>2. \A p \in PreExisting' : Covered(p)' \/ Kept(pre.images, p)'
      BY <1>1, <1>3, <1>4, <1>5 DEF EvInv, WorkKept, Under
    <2>3. \A p \in PreExisting' \ edited' : origin'[p] = None =>
            /\ \A i \in 1..Len(mutations') :
                 mutations'[i].kind = "terminal" /\ Kept(mutations[i].images, p)'
                   => mutations'[i].images[p].text = wt'[p].text
            /\ Kept(pre.images, p)' => pre'.images[p].text = wt'[p].text
      BY <1>1, <1>5 DEF EvInv, WorkKept, Under, Kept
    <2>4. \A p \in Path : Saved(p)' <=> Saved(p)
      BY <1>1, <1>3, <1>5 DEF Saved
    <2>5. \A p \in Path : Saved(p)' \/ InHand(p)'
      BY <1>1, <1>4, <2>4 DEF EvInv, WorkKept, InHand, Under
    <2>6. o.state = "complete" /\ Fingerprint(pre.at)' = Fingerprint(post.at)'
            => \A p \in Path : Saved(p)'
      BY <1>1, <1>4, <1>6, <1>8, <2>4 DEF EvInv, WorkKept
    <2> QED
      BY <1>1, <2>1, <2>2, <2>3, <2>5, <2>6 DEF WorkKept, Under, None
  <1> QED
    BY <1>9, <1>10, <1>11 DEF EvInv

LEMMA EditEvidence ==
  ASSUME IInv, EvInv, Edit
  PROVE  EvInv'
  <1>1. /\ op.phase \notin {"launched", "exited"}
        /\ UNCHANGED <<start, pre, post, mutations, op, origin>>
    BY DEF Edit, watched, session
  <1>2. ASSUME NEW p \in Path, NEW t \in Text, Write(p, t), edited' = edited \cup {p}
        PROVE  EvInv'
    BY <1>1, <1>2, WrittenTexts, StillKept DEF EvInv
  <1>3. ASSUME CommitAll, edited' = edited
        PROVE  EvInv'
    <2>1. wt' = wt /\ head' = [id |-> head.id + 1, tree |-> Tree]
      BY <1>3 DEF CommitAll
    <2>2. Texts'
      BY <1>1, <2>1 DEF EvInv, Texts
    <2> QED
      BY <1>1, <1>3, <2>1, <2>2, StillKept
  <1> QED
    BY <1>2, <1>3 DEF Edit

LEMMA DisturbedEvidence ==
  ASSUME IInv, EvInv, NEW c \in Command, NEW p \in Path, NEW t \in Text, Disturbed(c, p, t)
  PROVE  EvInv'
  <1>1. /\ op.phase \notin {"launched", "exited"}
        /\ Write(p, t) /\ edited' = edited \cup {p}
        /\ UNCHANGED <<start, pre, post, mutations, op, origin>>
    BY DEF Disturbed, Working, NoOp, None, watched
  <1> QED
    BY <1>1, WrittenTexts, StillKept DEF EvInv

LEMMA InitEvidence == Init => EvInv
  <1> SUFFICES ASSUME Init PROVE EvInv
    OBVIOUS
  <1>1. PICK w \in Worktree :
          /\ wt = [p \in Path |-> [text |-> w.text[p], stamp |-> 0]]
          /\ head = [id |-> 1, tree |-> w.tree]
    BY DEF Init
  <1>2. /\ mutations = <<>> /\ op.phase = None /\ origin = [p \in Path |-> None]
    BY DEF Init, NoOp
  <1>3. Texts
    BY <1>1, <1>2, CompletionAssumption DEF Texts
  <1>4. Len(mutations) = 0 /\ 1..Len(mutations) = {}
    BY <1>2
  <1>5. NamedKept
    BY <1>4 DEF NamedKept, Listing
  <1>6. Truth
    BY <1>2 DEF Truth, Under, Phases, None
  <1>7. WorkKept
    BY <1>2, <1>4 DEF WorkKept, Under, None, Saved
  <1> QED
    BY <1>3, <1>5, <1>6, <1>7 DEF EvInv

\* Every step keeps the evidence.
LEMMA EvidenceStep ==
  ASSUME IInv, IInv', EvInv, [Next]_vars
  PROVE  EvInv'
  <1>1. CASE Work
    <2>1. CASE \E p \in Path, t \in Text : Install(p, t)
      BY <2>1, InstallEvidence
    <2>2. CASE \E known \in BOOLEAN : ReadPatched(known)
      BY <2>2, ReadPatchedEvidence
    <2>3. CASE RecordPatch
      BY <2>3, RecordPatchEvidence
    <2>4. CASE RefusePatch
      BY <2>4, NothingTouched DEF RefusePatch, repository, watched, session, ghosts
    <2>5. CASE Launch
      BY <2>5, LaunchEvidence
    <2>6. CASE \E e \in Effects : Run(e)
      BY <2>6, RunEvidence
    <2>7. CASE \E o \in {ObservedAfter, Unknown} : Observe(o)
      BY <2>7, ObserveEvidence
    <2>8. CASE Apply
      BY <2>8, ApplyEvidence
    <2>9. CASE \E c \in Command, passed \in BOOLEAN : Validate(c, passed)
      BY <2>9, NothingTouched DEF Validate, repository, watched
    <2>10. CASE \E c \in Command, p \in Path, t \in Text : Disturbed(c, p, t)
      BY <2>10, DisturbedEvidence
    <2> QED
      BY <1>1, <2>1, <2>2, <2>3, <2>4, <2>5, <2>6, <2>7, <2>8, <2>9, <2>10 DEF Work
  <1>2. CASE Claiming
    <2>1. UNCHANGED <<wt, head, hidden, start, pre, post, mutations, op, origin, edited>>
      BY <1>2 DEF Claiming, MakeClaim, Reject, Accept, MakeDirectory, SyncParent, RenameHandoff,
         SyncHandoff, AssertReusable, Commit, LookBefore, LookAfter, Storing, Reporting,
         repository, watched, session, ghosts
    <2> QED
      BY <2>1, NothingTouched
  <1>3. CASE Stopping
    <2>1. UNCHANGED <<wt, head, hidden, start, pre, post, mutations, op, origin, edited>>
      BY <1>3 DEF Stopping, Fail, Abort, Pause, Unlink, SyncRemoval, End, Storing,
         repository, watched, session, ghosts
    <2> QED
      BY <2>1, NothingTouched
  <1>4. CASE Edit
    BY <1>4, EditEvidence
  <1>5. CASE Crash \/ Load \/ UNCHANGED vars
    <2>1. UNCHANGED <<wt, head, hidden, start, pre, post, mutations, op, origin, edited>>
      BY <1>5 DEF Crash, Load, vars, repository, watched, session, ghosts
    <2> QED
      BY <2>1, NothingTouched
  <1> QED
    BY <1>1, <1>2, <1>3, <1>4, <1>5 DEF Next

\* What the session holds of the work it changed (SessionEvidence): the
\* records name what was changed, with the text it had, and the images hold
\* what nothing else does.
THEOREM EvidenceInvariance == Spec => []EvInv
  <1>1. Init => EvInv
    BY InitEvidence
  <1>2. IInv /\ IInv' /\ EvInv /\ [Next]_vars => EvInv'
    BY EvidenceStep
  <1> QED
    BY <1>1, <1>2, Invariance, PTL DEF Spec

\* A path the session changed is in its diff, with the text it had before, or
\* with no text; or the diff says that it may lack paths
\* (snapshot-diff.ts, the baselines of diffSession).
THEOREM DiffTruthHolds == Spec => []DiffTruth
  <1>1. EvInv => DiffTruth
    BY DEF EvInv, Truth, DiffTruth, Told, NoOp
  <1> QED
    BY <1>1, EvidenceInvariance, PTL

\* The user's work from before the session, once the session has changed it,
\* is held by a record or by the operation under way, at every step and
\* whenever the process dies (workspace-observer.ts, the images).
THEOREM UserWorkHolds == Spec => []UserWorkHeld
  <1>1. ASSUME IInv, EvInv, NEW p \in PreExisting \ edited, origin[p] # None
        PROVE  origin[p] \in Held(p)
    <2>1. p \in Path
      BY <1>1 DEF PreExisting, Dirty
    <2>2. CASE Recorded(p, origin[p])
      <3>1. PICK i \in 1..Len(mutations) :
              /\ Covers(mutations[i], p)
              /\ origin[p] = IF mutations[i].kind = "terminal" THEN mutations[i].images[p].text
                                                               ELSE mutations[i].before[p]
        BY <2>2 DEF Recorded
      <3>2. i \in DOMAIN mutations
        BY <1>1, Domain DEF IInv, Records
      <3>3. CASE mutations[i].kind = "terminal"
        <4>1. origin[p] \in {mutations[i].images[p].text :
                               k \in {mutations[i].images[p].kind} \cap {"retained", "blob"}}
          BY <3>1, <3>3 DEF Covers, Kept
        <4> QED
          BY <3>2, <3>3, <4>1 DEF Held
      <3>4. CASE mutations[i].kind = "patch" /\ p \in mutations[i].paths
        <4>1. origin[p] = mutations[i].before[p]
          BY <3>1, <3>4
        <4> QED
          BY <3>2, <3>4, <4>1 DEF Held
      <3> QED
        BY <3>1, <3>3, <3>4 DEF Covers
    <2>3. CASE InHand(p)
      BY <2>3 DEF Held, InHand, Under, Kept
    <2>4. CASE op.phase \in {"patched", "result"} /\ p = op.path /\ origin[p] = op.before
      BY <2>4 DEF Held
    <2>5. Recorded(p, origin[p]) \/ InHand(p)
            \/ (op.phase \in {"patched", "result"} /\ p = op.path /\ origin[p] = op.before)
      BY <1>1, <2>1 DEF EvInv, Truth, WorkKept, Phases, Under, Saved
    <2> QED
      BY <2>2, <2>3, <2>4, <2>5
  <1>2. IInv /\ EvInv => UserWorkHeld
    BY <1>1 DEF UserWorkHeld
  <1> QED
    BY <1>2, Invariance, EvidenceInvariance, PTL

================================================================================
