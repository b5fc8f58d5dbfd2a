--------------------------- MODULE RetainedSource ---------------------------
(***************************************************************************)
(* The retained source of src-tauri/src/primary_source.rs over the capture *)
(* store of crates/source-capture, the receipts database and the source    *)
(* bindings of the graph.  Recoveries capture what they parsed and publish *)
(* facts bound to receipts; readers and investigations read the captured   *)
(* text later; the user forgets a source's captures after a preview.       *)
(*                                                                         *)
(* Every operation holds an advisory file lock per source, shared or, to   *)
(* forget, exclusive, that is tried and never waited for.  The four stores *)
(* (captures, receipts, graph, jobs and proposals) are separate databases: *)
(* each action below is one transaction of one of them.                    *)
(*                                                                         *)
(* A capture is [src, files]: files is the set of file contents that its   *)
(* manifest names by digest.  A receipt attests one fact of one capture    *)
(* and is named by the capture here; there is one fact per source, whose   *)
(* row is what was parsed.  The rows are one unit of storage each.         *)
(***************************************************************************)
EXTENDS GraphStore

CONSTANTS
    Source,        \* registered sources
    Tree,          \* Tree[s]: the sets of file contents its working tree may hold
    Recovery,      \* concurrent recoveries
    Client,        \* concurrent readers and investigations
    User,          \* the user's retention dialogs
    MaxCaptures,   \* StoreLimits::max_captures
    MaxBytes,      \* StoreLimits::max_bytes, in stored rows
    MaxReceipts,   \* MAX_RECEIPTS
    Asked          \* the sources that clients and the user open

ASSUME LimitsAreCounts == {MaxCaptures, MaxBytes, MaxReceipts} \subseteq Nat
ASSUME TreesAreFinite == \A s \in Source : \A t \in Tree[s] : IsFiniteSet(t)

VARIABLES
    captures,      \* captures table
    objects,       \* objects table: contents by digest
    receipts,      \* receipts table; receipts are never deleted
    bound,         \* the facts and their current bindings
    investigated,  \* receipts that investigation ledgers cite
    op,            \* op[o]: where each operation is
    forgotten      \* history: the captures that a forget deleted and nobody
                   \* captured again

vars == <<captures, objects, receipts, bound, investigated, op, forgotten>>

Op == Recovery \cup Client \cup User
NoCapture == [src |-> "none", files |-> {}]

(* What a retention preview shows.  Citations by staged proposals, which    *)
(* change under no guard as bindings do, are left out.                     *)
Parts == <<"captures", "receipts", "bindings", "investigated">>
NothingShown == [p \in Range(Parts) |-> {}]

Resting == [at |-> "idle", src |-> "none", lock |-> "none", cap |-> NoCapture,
            had |-> FALSE, step |-> 1, same |-> TRUE, shown |-> NothingShown,
            seen |-> EmptyGraph]

Fact(s) == NodeKey(s)

Of(cs, s) == {c \in cs : c.src = s}

-----------------------------------------------------------------------------
(* guard: try_lock_shared and try_lock on the source's lock file.          *)

Holders(s, mode) == {o \in Op : op[o].src = s /\ op[o].lock = mode}

CanShare(s) == Holders(s, "exclusive") = {}

CanExclude(s) == Holders(s, "exclusive") \cup Holders(s, "shared") = {}

(* The guard is dropped when the operation returns, on every path.         *)
Return(o) == op' = [op EXCEPT ![o] = Resting]

-----------------------------------------------------------------------------
(* The capture store.                                                      *)

StoredRows == Cardinality(captures) + Cardinality(objects)

(* Faulty variant: the new manifest's own bytes are not counted.           *)
FitsWithoutManifest(c) ==
    /\ Cardinality(captures) < MaxCaptures
    /\ StoredRows + Cardinality(c.files \ objects) <= MaxBytes

(* persist: capacity for the manifest and the objects that are missing.    *)
Fits(c) ==
    /\ Cardinality(captures) < MaxCaptures
    /\ StoredRows + 1 + Cardinality(c.files \ objects) <= MaxBytes

(* read_object: what is stored under a digest, if anything, is its content. *)
ReadObject(digest) == {digest} \cap objects

(* read_span: the manifest and the object are both there.                  *)
Readable(c) == c \in captures /\ \A digest \in c.files : ReadObject(digest) # {}

(* Faulty variant: every object of the deleted captures is removed.        *)
RemovableAll(s) == UNION {c.files : c \in Of(captures, s)}

(* forget_source: objects that no capture of another source references.    *)
Removable(s) ==
    (UNION {c.files : c \in Of(captures, s)}) \ (UNION {c.files : c \in captures \ Of(captures, s)})

-----------------------------------------------------------------------------
Init ==
    /\ captures = {} /\ objects = {} /\ receipts = {} /\ forgotten = {}
    /\ bound = EmptyGraph
    /\ investigated = {}
    /\ op = [o \in Op |-> Resting]

(* capture_working_tree: the files it selects, all of them or none, with   *)
(* what the tree holds when they are read.                                 *)
CaptureWorkingTree(s) == {[src |-> s, files |-> t] : t \in Tree[s]}

(* prepare: the shared guard, then the working tree is captured.           *)
Prepare(o, s) ==
    /\ op[o].at = "idle"
    /\ CanShare(s)
    /\ \E c \in CaptureWorkingTree(s) :
          op' = [op EXCEPT ![o] = [Resting EXCEPT !.at = "captured", !.src = s, !.lock = "shared", !.cap = c]]
    /\ UNCHANGED <<captures, objects, receipts, bound, investigated, forgotten>>

(* CaptureStore::persist.  A capture that is there already is kept.        *)
PersistCapture(o) ==
    /\ op[o].at = "captured"
    /\ LET c == op[o].cap
       IN  \/ /\ c \in captures
              /\ op' = [op EXCEPT ![o].at = "stored"]
              /\ UNCHANGED <<captures, objects, forgotten>>
           \/ /\ c \notin captures
              /\ Fits(c)
              /\ captures' = captures \cup {c}
              /\ objects' = objects \cup c.files
              /\ forgotten' = forgotten \ {c}
              /\ op' = [op EXCEPT ![o].at = "stored"]
           \/ /\ c \notin captures
              /\ ~Fits(c)
              /\ Return(o)
              /\ UNCHANGED <<captures, objects, forgotten>>
    /\ UNCHANGED <<receipts, bound, investigated>>

(* Faulty variant: receipts that do not fit are dropped and the recovery   *)
(* goes on.                                                                *)
PersistReceiptsBestEffort(o) ==
    /\ op[o].at = "stored"
    /\ receipts' = IF Cardinality(receipts \cup {op[o].cap}) <= MaxReceipts
                   THEN receipts \cup {op[o].cap} ELSE receipts
    /\ op' = [op EXCEPT ![o].at = "receipted"]
    /\ UNCHANGED <<captures, objects, bound, investigated, forgotten>>

(* receipt_storage: the bound on the receipts that are kept.               *)
ReceiptsFit(kept) == Cardinality(kept) <= MaxReceipts

(* ReceiptStore::persist: without capacity the recovery is not published,  *)
(* and the capture stays.                                                  *)
PersistReceipts(o) ==
    /\ op[o].at = "stored"
    /\ \/ /\ ReceiptsFit(receipts \cup {op[o].cap})
          /\ receipts' = receipts \cup {op[o].cap}
          /\ op' = [op EXCEPT ![o].at = "receipted"]
       \/ /\ ~ReceiptsFit(receipts \cup {op[o].cap})
          /\ Return(o)
          /\ UNCHANGED receipts
    /\ UNCHANGED <<captures, objects, bound, investigated, forgotten>>

(* The graph publication with the matching bindings; the recovery then     *)
(* goes on under its guard and returns.                                    *)
Publish(o) ==
    /\ op[o].at = "receipted"
    /\ LET c == op[o].cap
           row == [k \in {Fact(c.src)} |-> c.files]
           binding == [k \in {Fact(c.src)} |-> [receipt |-> c, digest |-> c.files]]
       IN  bound' = PublishWithBindings(bound, [EmptyPatch EXCEPT !.nodes = row], c.src, binding)
    /\ op' = [op EXCEPT ![o].at = "published"]
    /\ UNCHANGED <<captures, objects, receipts, investigated, forgotten>>

(* Any operation may fail, be cancelled or return: its guard goes.         *)
Stop(o) ==
    /\ op[o].at # "idle"
    /\ Return(o)
    /\ UNCHANGED <<captures, objects, receipts, bound, investigated, forgotten>>

-----------------------------------------------------------------------------
(* Faulty variant: the reader drops its guard once it has been granted.     *)
LocateUnguarded(o, s) ==
    /\ op[o].at = "idle"
    /\ CurrentSourceBinding(bound, Fact(s)) # {}
    /\ CanShare(s)
    /\ op' = [op EXCEPT ![o] = [Resting EXCEPT !.at = "located", !.src = s]]
    /\ UNCHANGED <<captures, objects, receipts, bound, investigated, forgotten>>

(* bound_receipt: the binding found first only locates the source.         *)
Locate(o, s) ==
    /\ op[o].at = "idle"
    /\ CurrentSourceBinding(bound, Fact(s)) # {}
    /\ CanShare(s)
    /\ op' = [op EXCEPT ![o] = [Resting EXCEPT !.at = "located", !.src = s, !.lock = "shared"]]
    /\ UNCHANGED <<captures, objects, receipts, bound, investigated, forgotten>>

(* The binding is read again under the guard, with its receipt; had says   *)
(* whether the text could be read then.                                    *)
Bind(o) ==
    /\ op[o].at = "located"
    /\ \/ \E b \in CurrentSourceBinding(bound, Fact(op[o].src)) :
             /\ b.receipt \in receipts
             /\ op' = [op EXCEPT ![o].at = "bound", ![o].cap = b.receipt, ![o].had = Readable(b.receipt)]
       \/ /\ CurrentSourceBinding(bound, Fact(op[o].src)) = {}
          /\ Return(o)
    /\ UNCHANGED <<captures, objects, receipts, bound, investigated, forgotten>>

(* FrozenContext::query: the preliminary selection, from a graph that is   *)
(* the frozen one.                                                         *)
Select(o, s) ==
    /\ op[o].at = "idle"
    /\ SelectionState(bound, Fact(s)) = "present"
    /\ op' = [op EXCEPT ![o] = [Resting EXCEPT !.at = "selected", !.seen = bound,
                                               !.cap = bound.bind[Fact(s)].receipt]]
    /\ UNCHANGED <<captures, objects, receipts, bound, investigated, forgotten>>

(* EvidenceGuards::acquire.                                                *)
Acquire(o) ==
    /\ op[o].at = "selected"
    /\ CanShare(op[o].cap.src)
    /\ op' = [op EXCEPT ![o].at = "acquired", ![o].src = op[o].cap.src, ![o].lock = "shared",
                        ![o].had = Readable(op[o].cap)]
    /\ UNCHANGED <<captures, objects, receipts, bound, investigated, forgotten>>

(* The selection again, under the guard; then the receipt, and the ledger  *)
(* commits its reference before the guard goes.                            *)
Cite(o) ==
    /\ op[o].at = "acquired"
    /\ \/ /\ bound.facts = op[o].seen.facts
          /\ \E b \in CurrentSourceBinding(bound, Fact(op[o].src)) : b.receipt = op[o].cap
          /\ op[o].cap \in receipts
          /\ investigated' = investigated \cup {op[o].cap}
          /\ op' = [op EXCEPT ![o].at = "bound", ![o].seen = EmptyGraph]
       \/ /\ bound # op[o].seen
          /\ Return(o)
          /\ UNCHANGED investigated
    /\ UNCHANGED <<captures, objects, receipts, bound, forgotten>>

ClearBindings ==
    /\ bound # EmptyGraph
    /\ bound' = Clear(bound)
    /\ UNCHANGED <<captures, objects, receipts, investigated, op, forgotten>>

-----------------------------------------------------------------------------
(* The user.  preview_locked reads one store after the other.              *)
Current(s, part) ==
    CASE part = "captures"     -> Of(captures, s)
      [] part = "receipts"     -> Of(receipts, s)
      [] part = "bindings"     -> Range(SourceBindingsForRepo(bound, s))
      [] part = "investigated" -> Of(investigated, s)

StartPreview(o, s) ==
    /\ op[o].at = "idle"
    /\ CanShare(s)
    /\ op' = [op EXCEPT ![o] = [Resting EXCEPT !.at = "looking", !.src = s, !.lock = "shared"]]
    /\ UNCHANGED <<captures, objects, receipts, bound, investigated, forgotten>>

(* One store of preview_locked.                                            *)
LookAndShow(o) ==
    /\ op[o].at = "looking"
    /\ op[o].step <= Len(Parts)
    /\ op' = [op EXCEPT ![o].shown[Parts[op[o].step]] = Current(op[o].src, Parts[op[o].step]),
                        ![o].step = @ + 1]
    /\ UNCHANGED <<captures, objects, receipts, bound, investigated, forgotten>>

(* The preview is shown and its guard goes.                                *)
Show(o) ==
    /\ op[o].at = "looking"
    /\ op[o].step > Len(Parts)
    /\ op' = [op EXCEPT ![o] = [Resting EXCEPT !.at = "shown", !.cap.src = op[o].src,
                                               !.shown = op[o].shown]]
    /\ UNCHANGED <<captures, objects, receipts, bound, investigated, forgotten>>

(* forget: the exclusive guard, then the preview again.                    *)
StartForget(o) ==
    /\ op[o].at = "shown"
    /\ CanExclude(op[o].cap.src)
    /\ op' = [op EXCEPT ![o].at = "rechecking", ![o].src = op[o].cap.src, ![o].lock = "exclusive"]
    /\ UNCHANGED <<captures, objects, receipts, bound, investigated, forgotten>>

(* Faulty variant: the fingerprint covers the captures only.               *)
SamePartIfCaptures(o, part) == part = "captures" => Current(op[o].src, part) = op[o].shown[part]

(* The fingerprint is a hash of all the parts: it is the one shown if and  *)
(* only if each part is.                                                   *)
SamePart(o, part) == Current(op[o].src, part) = op[o].shown[part]

LookAgain(o) ==
    /\ op[o].at = "rechecking"
    /\ op[o].step <= Len(Parts)
    /\ op' = [op EXCEPT ![o].same = @ /\ SamePart(o, Parts[op[o].step]), ![o].step = @ + 1]
    /\ UNCHANGED <<captures, objects, receipts, bound, investigated, forgotten>>

(* forget_source, whose transaction checks the inventory once more.        *)
ForgetSource(o) ==
    /\ op[o].at = "rechecking"
    /\ op[o].step > Len(Parts)
    /\ op[o].same
    /\ Of(captures, op[o].src) = op[o].shown["captures"]
    /\ captures' = captures \ Of(captures, op[o].src)
    /\ objects' = objects \ Removable(op[o].src)
    /\ forgotten' = forgotten \cup Of(captures, op[o].src)
    /\ Return(o)
    /\ UNCHANGED <<receipts, bound, investigated>>

RefuseForget(o) ==
    /\ op[o].at = "rechecking"
    /\ op[o].step > Len(Parts)
    /\ ~op[o].same
    /\ Return(o)
    /\ UNCHANGED <<captures, objects, receipts, bound, investigated, forgotten>>

Next ==
    \/ \E o \in Recovery :
          \/ \E s \in Source : Prepare(o, s)
          \/ PersistCapture(o) \/ PersistReceipts(o) \/ Publish(o)
    \/ \E o \in Client :
          \/ \E s \in Asked : Locate(o, s) \/ Select(o, s)
          \/ Bind(o) \/ Acquire(o) \/ Cite(o)
    \/ \E o \in User :
          \/ \E s \in Asked : StartPreview(o, s)
          \/ LookAndShow(o) \/ Show(o) \/ StartForget(o) \/ LookAgain(o)
          \/ ForgetSource(o) \/ RefuseForget(o)
    \/ \E o \in Op : Stop(o)
    \/ ClearBindings

Spec == Init /\ [][Next]_vars

-----------------------------------------------------------------------------
(* The capture store always holds exactly the contents its manifests name: *)
(* forgetting one source never removes what another's capture shares, and  *)
(* leaves nothing behind (forget_source's removable set).                  *)
RetainedIsComplete == objects = UNION {c.files : c \in captures}

(* Concurrent recoveries never exceed the store's limits together.         *)
WithinQuota ==
    /\ Cardinality(captures) <= MaxCaptures
    /\ StoredRows <= MaxBytes

(* What a guarded operation could read when it pinned its receipt it can   *)
(* read until it returns: no forget runs under a shared guard.             *)
HeldIsReadable ==
    \A o \in Client : op[o].at \in {"acquired", "bound"} /\ op[o].had => Readable(op[o].cap)

(* A binding in the graph names a stored receipt whose capture is retained *)
(* unless the user forgot it: a recovery that could not keep its evidence  *)
(* is not published.                                                       *)
BindingIsBacked ==
    \A k \in DOMAIN bound.bind :
        LET c == bound.bind[k].receipt
        IN  c \in receipts /\ (c \in captures \/ c \in forgotten)

(* Retained evidence is within its limits and there for whoever relies on  *)
(* it: the other sources, an operation under way, and the published graph. *)
RetainedIsBacked == RetainedIsComplete /\ WithinQuota /\ HeldIsReadable /\ BindingIsBacked

(* A forget deletes what the user was shown: at the deletion the source's  *)
(* captures, receipts and investigation references are those of the        *)
(* preview, although the guard was free in between.                        *)
ForgetsWhatWasShown ==
    [][\A o \in User : ForgetSource(o) =>
          \A p \in {"captures", "receipts", "investigated"} :
              Current(op[o].src, p) = op[o].shown[p]]_vars

-----------------------------------------------------------------------------
(* The inductive invariant of RetainedSourceProofs.                        *)

Shaped(r) ==
    /\ r = [at |-> r.at, src |-> r.src, lock |-> r.lock, cap |-> r.cap, had |-> r.had,
            step |-> r.step, same |-> r.same, shown |-> r.shown, seen |-> r.seen]
    /\ r.same \in BOOLEAN /\ r.step \in Nat /\ r.lock \in {"none", "shared", "exclusive"}

(* Which guard is held where, and on the source of what is in hand.        *)
Guarded(r) ==
    /\ r.at \in {"idle", "selected", "shown"} => r.lock = "none" /\ r.step = 1
    /\ r.at \in {"captured", "stored", "receipted", "acquired", "bound"} =>
          r.lock = "shared" /\ r.cap.src = r.src
    /\ r.at = "rechecking" => r.lock = "exclusive" /\ r.cap.src = r.src
    /\ r.at \in {"located", "looking", "published"} => r.lock = "shared"
    /\ r.at = "captured" => IsFiniteSet(r.cap.files)

(* What an operation has kept, or could read, is still there.              *)
Kept(r) ==
    /\ r.at \in {"stored", "receipted"} => r.cap \in captures
    /\ r.at = "receipted" => r.cap \in receipts
    /\ r.at \in {"acquired", "bound"} /\ r.had => Readable(r.cap)

(* What a forget found to be as it was shown is so still.                  *)
Rechecked(r) ==
    r.at = "rechecking" /\ r.same =>
        \A i \in 1 .. Len(Parts) :
            i < r.step /\ Parts[i] # "bindings" => Current(r.src, Parts[i]) = r.shown[Parts[i]]

OpsFit == \A o \in Op : Shaped(op[o]) /\ Guarded(op[o]) /\ Kept(op[o]) /\ Rechecked(op[o])

(* The source that one operation holds exclusively no other one holds.     *)
GuardsExclude ==
    \A o, q \in Op : o # q /\ op[o].lock = "exclusive" /\ op[q].lock # "none" => op[q].src # op[o].src

(* Every binding is of the fact that its receipt attests.                  *)
BindingsFit ==
    /\ bound = [facts |-> bound.facts, bind |-> bound.bind]
    /\ \A k \in DOMAIN bound.bind : k = Fact(bound.bind[k].receipt.src)

(* Guards, evidence and bindings together: inductive.                      *)
IndInv ==
    /\ DOMAIN op = Op /\ IsFiniteSet(captures) /\ IsFiniteSet(objects)
    /\ OpsFit /\ GuardsExclude /\ BindingsFit
    /\ RetainedIsComplete /\ WithinQuota /\ BindingIsBacked
=============================================================================
