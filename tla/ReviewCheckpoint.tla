-------------------------- MODULE ReviewCheckpoint --------------------------
(***************************************************************************)
(* qualification/checkpoint.py: a review checkpoint of a workspace, the     *)
(* dispositions of its reviewers and the receipt that completes it.        *)
(*                                                                          *)
(* Each command is a process that reads the files of the workspace one by   *)
(* one while they may be edited, prepares a directory aside and publishes   *)
(* it with one rename, which fails if the name is taken.  A killed command  *)
(* leaves its directory; a review's is beside the published receipts.       *)
(***************************************************************************)
EXTENDS Integers

CONSTANTS Procs,        \* processes that run a command
          Sources,      \* the files of the checkpoint
          Reviewers,
          None,
          MaxEdits,     \* bound: edits of the workspace
          MaxReviews,   \* bound: reviews that get as far as a directory
          MaxKills      \* bound: kills

Contents == 0 .. MaxEdits
Vectors  == [Sources -> Contents]
Blank    == [f \in Sources |-> 0]
Ids      == 1 .. MaxReviews
Dispositions == {"accept", "reject"}

ASSUME CheckpointAssumption ==
    /\ Sources # {} /\ MaxEdits \in Nat /\ MaxReviews \in Nat /\ MaxKills \in Nat
    /\ None \notin Vectors /\ None \notin Reviewers /\ Reviewers \cap Ids = {}

VARIABLES
    work,         \* the workspace: contents of each source
    checkpoint,   \* the published checkpoint
    reviews,      \* the published dispositions
    stagings,     \* directories of reviews not yet published
    completion,   \* the published receipt
    pc, left, taken, copied,   \* a process, the files it has left, what it read
    who, says, my,             \* a review: reviewer, disposition, directory
    listing, bound,            \* a completion: directories it listed, reviewers it counts
    edits, ids, kills,
    since,        \* history: states of the workspace since the command began
    late,         \* history: reviews published since a completion listed them
    reverted      \* history: a file got earlier contents back

workspace == <<work, edits, reverted>>
published == <<checkpoint, reviews, stagings, completion>>
process   == <<pc, left, taken, copied, who, says, my, listing, bound, late>>
vars == <<workspace, published, process, ids, kills, since>>

Init ==
    /\ work = Blank /\ edits = 0 /\ reverted = FALSE
    /\ checkpoint = None /\ completion = None /\ stagings = {}
    /\ reviews = [r \in Reviewers |-> None]
    /\ pc = [p \in Procs |-> "idle"]
    /\ left = [p \in Procs |-> {}]
    /\ taken = [p \in Procs |-> Blank] /\ copied = [p \in Procs |-> Blank]
    /\ who = [p \in Procs |-> None] /\ says = [p \in Procs |-> None] /\ my = [p \in Procs |-> 0]
    /\ listing = [p \in Procs |-> {}] /\ bound = [p \in Procs |-> {}]
    /\ since = [p \in Procs |-> {}] /\ late = [p \in Procs |-> {}]
    /\ ids = 0 /\ kills = 0

Goto(p, l) == pc' = [pc EXCEPT ![p] = l]

\* A command begins and has all the files left to read.
Begin(p, l) ==
    /\ pc[p] = "idle"
    /\ Goto(p, l)
    /\ left' = [left EXCEPT ![p] = Sources]
    /\ since' = [since EXCEPT ![p] = {work}]

\* A command is over.
End(p) ==
    /\ Goto(p, "idle")
    /\ left' = [left EXCEPT ![p] = {}]
    /\ taken' = [taken EXCEPT ![p] = Blank] /\ copied' = [copied EXCEPT ![p] = Blank]
    /\ who' = [who EXCEPT ![p] = None] /\ says' = [says EXCEPT ![p] = None]
    /\ my' = [my EXCEPT ![p] = 0]
    /\ listing' = [listing EXCEPT ![p] = {}] /\ bound' = [bound EXCEPT ![p] = {}]
    /\ since' = [since EXCEPT ![p] = {}] /\ late' = [late EXCEPT ![p] = {}]

\* One file is done; after the last one the command goes on.
Tick(p, f, l) ==
    /\ left' = [left EXCEPT ![p] = @ \ {f}]
    /\ pc' = IF left[p] = {f} THEN [pc EXCEPT ![p] = l] ELSE pc

----------------------------------------------------------------------------
(* create_checkpoint.                                                      *)

CreateStart(p) ==
    /\ checkpoint = None
    /\ Begin(p, "hash")
    /\ UNCHANGED <<workspace, published, taken, copied, who, says, my, listing, bound, late, ids,
                   kills>>

\* All files are hashed first ...
Hash(p, f) ==
    /\ pc[p] = "hash" /\ f \in left[p]
    /\ taken' = [taken EXCEPT ![p][f] = work[f]]
    /\ IF left[p] = {f}
       THEN Goto(p, "copy") /\ left' = [left EXCEPT ![p] = Sources]
       ELSE left' = [left EXCEPT ![p] = @ \ {f}] /\ UNCHANGED pc
    /\ UNCHANGED <<workspace, published, copied, who, says, my, listing, bound, late, ids, kills,
                   since>>

\* Seeded fault: the copies are not compared with the hashes.
AnyCopy(p, f) == TRUE

\* The copy has the contents that were hashed.
SameCopy(p, f) == work[f] = taken[p][f]

\* ... and then each is copied and the copy hashed; a difference is an error.
Copy(p, f) ==
    /\ pc[p] = "copy" /\ f \in left[p]
    /\ \/ /\ SameCopy(p, f)
          /\ copied' = [copied EXCEPT ![p][f] = work[f]]
          /\ Tick(p, f, "publish")
          /\ UNCHANGED <<taken, who, says, my, listing, bound, late, since>>
       \/ ~SameCopy(p, f) /\ End(p)
    /\ UNCHANGED <<workspace, published, ids, kills>>

\* The rename, which fails if another command has published a checkpoint.
PublishCheckpoint(p) ==
    /\ pc[p] = "publish"
    /\ checkpoint' = IF checkpoint = None THEN copied[p] ELSE checkpoint
    /\ End(p)
    /\ UNCHANGED <<workspace, reviews, stagings, completion, ids, kills>>

----------------------------------------------------------------------------
(* verify_checkpoint and record_review.                                    *)

ReviewStart(p, r, d) ==
    /\ checkpoint # None /\ ids < MaxReviews
    /\ Begin(p, "verify")
    /\ who' = [who EXCEPT ![p] = r] /\ says' = [says EXCEPT ![p] = d]
    /\ UNCHANGED <<workspace, published, taken, copied, my, listing, bound, late, ids, kills>>

\* The file has the contents of the checkpoint.
Sealed(f) == work[f] = checkpoint[f]

\* Every file is compared; the review is refused in the end if one has changed.
Verify(p, f) ==
    /\ pc[p] = "verify" /\ f \in left[p]
    /\ \/ /\ Sealed(f)
          /\ Tick(p, f, "stage")
          /\ UNCHANGED <<taken, copied, who, says, my, listing, bound, late, since>>
       \/ ~Sealed(f) /\ End(p)
    /\ UNCHANGED <<workspace, published, ids, kills>>

\* A receipt of this reviewer is on record: the same one or an error, and no change.
\* Otherwise a directory is made beside the published ones.
Stage(p) ==
    /\ pc[p] = "stage"
    /\ \/ /\ reviews[who[p]] # None
          /\ End(p)
          /\ UNCHANGED <<stagings, ids>>
       \/ /\ reviews[who[p]] = None /\ ids < MaxReviews
          /\ ids' = ids + 1
          /\ my' = [my EXCEPT ![p] = ids + 1]
          /\ stagings' = stagings \cup
                {[id |-> ids + 1, who |-> who[p], says |-> says[p], whole |-> FALSE]}
          /\ Goto(p, "pair")
          /\ UNCHANGED <<left, taken, copied, who, says, listing, bound, late, since>>
    /\ UNCHANGED <<workspace, checkpoint, reviews, completion, kills>>

\* The directory, under a name with a random part.
Mine(p) == {s \in stagings : s.id = my[p]}

\* receipt.md and receipt.json are both written.
WritePair(p) ==
    /\ pc[p] = "pair"
    /\ stagings' = (stagings \ Mine(p)) \cup {[s EXCEPT !.whole = TRUE] : s \in Mine(p)}
    /\ Goto(p, "rename")
    /\ UNCHANGED <<workspace, checkpoint, reviews, completion, left, taken, copied, who, says, my,
                   listing, bound, late, ids, kills, since>>

\* The rename, which fails if the reviewer has a receipt by now.
Renamed(p) == IF reviews[who[p]] = None THEN says[p] ELSE reviews[who[p]]

\* Either way the directory is gone afterwards.
PublishReview(p) ==
    /\ pc[p] = "rename"
    /\ reviews' = [reviews EXCEPT ![who[p]] = Renamed(p)]
    /\ stagings' = stagings \ Mine(p)
    /\ Goto(p, "idle")
    /\ left' = [left EXCEPT ![p] = {}]
    /\ who' = [who EXCEPT ![p] = None] /\ says' = [says EXCEPT ![p] = None]
    /\ my' = [my EXCEPT ![p] = 0]
    /\ since' = [since EXCEPT ![p] = {}]
    /\ late' = [q \in Procs |-> IF pc[q] \in {"read", "digest", "seal"}
                                THEN late[q] \cup {who[p]} ELSE late[q]]
    /\ UNCHANGED <<workspace, checkpoint, completion, taken, copied, listing, bound, ids, kills>>

----------------------------------------------------------------------------
(* seal_completion and _accepted_reviews.                                  *)

SealStart(p) ==
    /\ checkpoint # None
    /\ Begin(p, "list")
    /\ UNCHANGED <<workspace, published, taken, copied, who, says, my, listing, bound, late, ids,
                   kills>>

OnRecord == {r \in Reviewers : reviews[r] # None}

\* The directories of reviews/, the unpublished ones among them.
List(p) ==
    /\ pc[p] = "list"
    /\ listing' = [listing EXCEPT ![p] = OnRecord \cup {s.id : s \in stagings}]
    /\ Goto(p, "read")
    /\ UNCHANGED <<workspace, published, left, taken, copied, who, says, my, bound, late, ids, kills,
                   since>>

\* The receipts behind a listing, as far as they are there.
Receipts(p) ==
    {[id |-> 0, who |-> r, says |-> reviews[r], whole |-> TRUE] : r \in listing[p] \cap OnRecord}
      \cup {s \in stagings : s.id \in listing[p]}

\* Seeded fault: a disposition is not looked at.
AnyDisposition(p) ==
    /\ listing[p] # {}
    /\ \A i \in listing[p] \cap Ids : \E s \in stagings : s.id = i /\ s.whole
    /\ \A s, t \in Receipts(p) : s.who = t.who => s = t

\* There is a receipt, each directory has its pair, and all accept, one per reviewer.
AllAccept(p) ==
    /\ listing[p] # {}
    /\ \A i \in listing[p] \cap Ids : \E s \in stagings : s.id = i /\ s.whole
    /\ \A s \in Receipts(p) : s.says = "accept"
    /\ \A s, t \in Receipts(p) : s.who = t.who => s = t

ReadReviews(p) ==
    /\ pc[p] = "read"
    /\ \/ /\ AllAccept(p)
          /\ bound' = [bound EXCEPT ![p] = {s.who : s \in Receipts(p)}]
          /\ Goto(p, "digest")
          /\ UNCHANGED <<left, taken, copied, who, says, my, listing, late, since>>
       \/ ~AllAccept(p) /\ End(p)
    /\ UNCHANGED <<workspace, published, ids, kills>>

\* Each file is hashed; a changed one is an error in the end.
Digest(p, f) ==
    /\ pc[p] = "digest" /\ f \in left[p]
    /\ \/ /\ Sealed(f)
          /\ Tick(p, f, "seal")
          /\ UNCHANGED <<taken, copied, who, says, my, listing, bound, late, since>>
       \/ ~Sealed(f) /\ End(p)
    /\ UNCHANGED <<workspace, published, ids, kills>>

\* The receipt is published, unless there is one.
PublishCompletion(p) ==
    /\ pc[p] = "seal"
    /\ completion' = IF completion = None THEN bound[p] ELSE completion
    /\ End(p)
    /\ UNCHANGED <<workspace, checkpoint, reviews, stagings, ids, kills>>

----------------------------------------------------------------------------
(* The world.                                                              *)

Worked(w) == since' = [p \in Procs |-> IF pc[p] = "idle" THEN {} ELSE since[p] \cup {w}]

\* Somebody saves a file, with contents it never had ...
Edit(f) ==
    /\ edits < MaxEdits
    /\ edits' = edits + 1
    /\ work' = [work EXCEPT ![f] = edits + 1]
    /\ Worked(work')
    /\ UNCHANGED <<reverted, published, process, ids, kills>>

\* ... or puts the first ones back.
Revert(f) ==
    /\ work[f] # 0
    /\ work' = [work EXCEPT ![f] = 0] /\ reverted' = TRUE
    /\ Worked(work')
    /\ UNCHANGED <<edits, published, process, ids, kills>>

\* A command is killed; what it has in reviews/ stays there.
Kill(p) ==
    /\ pc[p] # "idle" /\ kills < MaxKills
    /\ kills' = kills + 1
    /\ End(p)
    /\ UNCHANGED <<workspace, published, ids>>

Create(p)   == CreateStart(p) \/ PublishCheckpoint(p) \/ \E f \in Sources : Hash(p, f) \/ Copy(p, f)
Review(p)   == \/ \E f \in Sources : Verify(p, f)
               \/ Stage(p) \/ WritePair(p) \/ PublishReview(p)
Complete(p) == \/ List(p) \/ ReadReviews(p) \/ PublishCompletion(p)
               \/ \E f \in Sources : Digest(p, f)

Next ==
    \/ \E p \in Procs : \/ Create(p) \/ Review(p) \/ Complete(p) \/ SealStart(p) \/ Kill(p)
                        \/ \E r \in Reviewers, d \in Dispositions : ReviewStart(p, r, d)
    \/ \E f \in Sources : Edit(f) \/ Revert(f)

Spec == Init /\ [][Next]_vars

----------------------------------------------------------------------------
(* Properties.                                                             *)

\* What is published is about one real state of the workspace: although the files are
\* read one by one while they are edited, a checkpoint is the state at one moment of the
\* command that made it, and at one moment of each later review and completion the
\* workspace was the checkpoint, unless a file got earlier contents back.  And it stays:
\* of two commands that found nothing published, the second does not replace the first.
PublishedForGood ==
    [][/\ checkpoint # None => checkpoint' = checkpoint
       /\ completion # None => completion' = completion
       /\ \A r \in Reviewers : reviews[r] # None => reviews'[r] = reviews[r]
       /\ \A p \in Procs : ~reverted =>
             /\ PublishCheckpoint(p) /\ checkpoint' # checkpoint => checkpoint' \in since[p]
             /\ PublishReview(p) \/ PublishCompletion(p) => checkpoint \in since[p]]_vars

\* A completion is published over a rejection only if that was published after the
\* completion had listed the reviews.
RejectionsMissedOnlyLate ==
    [][\A p \in Procs : PublishCompletion(p) /\ completion' # completion =>
          /\ completion' # {}
          /\ \A r \in Reviewers : reviews[r] = "reject" => r \in late[p]]_vars
=============================================================================
