---------------------------- MODULE LatentCache ----------------------------
(***************************************************************************)
(* The paged latent cache: crates/repercep-cache and the Python fallback   *)
(* of runtime/latent_cache.py, whose operations are the same.  A page is   *)
(* pinned from its allocation until its request unpins it; when the cache  *)
(* is full, the unpinned page furthest behind the frame window makes room. *)
(*                                                                         *)
(* In Rust every operation holds the mutex, so each is one action.  The    *)
(* fallback has no lock: there an operation is one action as long as one   *)
(* thread at a time uses the cache, and nothing else is claimed of it (no  *)
(* engine uses it yet; its tests do, from one thread).  The requests keep  *)
(* the page ids they were given, also after the page was evicted, and use  *)
(* them whenever they like.                                                *)
(***************************************************************************)
EXTENDS Integers, FiniteSets

CONSTANTS
    Requests,   \* request identifiers
    Frames,     \* frame indices, and frames a window may stand at
    DiffSteps,  \* diffusion steps
    NumPages,   \* capacity
    MaxPages    \* bound: pages ever allocated

ASSUME CacheAssumption ==
    /\ Frames \subseteq Int /\ DiffSteps \subseteq Int
    /\ NumPages \in Nat \ {0} /\ MaxPages \in Nat

VARIABLES
    pages,    \* the pages in the cache, by id
    next_id,  \* the id of the next page
    held      \* the ids each request was given: what it knows of its pages

cacheVars == <<pages, next_id, held>>

Page == [request_id : Requests, frame_index : Frames, last_used_step : DiffSteps, in_use : BOOLEAN]
Handle == [request_id : Requests, page_id : Nat, pinned : BOOLEAN]

Evictable == {id \in DOMAIN pages : ~pages[id].in_use}

\* frame_index - current_frame, then last_used_step: least first.
Behind(p, q, current) ==
    \/ p.frame_index - current < q.frame_index - current
    \/ /\ p.frame_index - current = q.frame_index - current
       /\ p.last_used_step < q.last_used_step

\* Of several pages as far behind, the one that was allocated first.
Victim(current) ==
    CHOOSE v \in Evictable : \A id \in Evictable \ {v} :
        \/ Behind(pages[v], pages[id], current)
        \/ ~Behind(pages[id], pages[v], current) /\ v < id

IsFull == Cardinality(DOMAIN pages) >= NumPages

Kept(ids) == [id \in ids |-> pages[id]]

(* Mutant: the smallest id that is free, as a pool of slots would have it. *)
FreeSlot == CHOOSE id \in 0..NumPages : id \notin DOMAIN pages
                                        /\ \A x \in 0..(id - 1) : x \in DOMAIN pages

\* Ids are never used again.
PageId == next_id

\* A page for frame f, last used at step s, while the window stands at current.
Allocate(r, f, s, current) ==
    /\ next_id < MaxPages
    /\ ~IsFull \/ Evictable # {}
    /\ LET left == IF IsFull THEN DOMAIN pages \ {Victim(current)} ELSE DOMAIN pages
           page == [request_id |-> r, frame_index |-> f, last_used_step |-> s, in_use |-> TRUE]
       IN  /\ pages' = [id \in left \cup {PageId} |-> IF id = PageId THEN page ELSE pages[id]]
           /\ held' = held \cup {[request_id |-> r, page_id |-> PageId, pinned |-> TRUE]}
    /\ next_id' = next_id + 1

\* LatentCacheError: every page is pinned.
AllocateFullyPinned(r) ==
    /\ IsFull /\ Evictable = {}
    /\ UNCHANGED cacheVars

\* An id that is not there any more is ignored.
Touch(h, s) ==
    /\ pages' = IF h.page_id \in DOMAIN pages
                THEN [pages EXCEPT ![h.page_id].last_used_step = s] ELSE pages
    /\ UNCHANGED <<next_id, held>>

Unpin(h) ==
    /\ pages' = IF h.page_id \in DOMAIN pages
                THEN [pages EXCEPT ![h.page_id].in_use = FALSE] ELSE pages
    /\ held' = (held \ {h}) \cup {[h EXCEPT !.pinned = FALSE]}
    /\ UNCHANGED next_id

ReleaseRequest(r) ==
    /\ pages' = Kept({id \in DOMAIN pages : pages[id].request_id # r})
    /\ held' = {h \in held : h.request_id # r}
    /\ UNCHANGED next_id

CacheInit == pages = << >> /\ next_id = 0 /\ held = {}

CacheNext ==
    \/ \E r \in Requests :
          \/ \E f \in Frames, s \in DiffSteps, current \in Frames : Allocate(r, f, s, current)
          \/ AllocateFullyPinned(r)
          \/ ReleaseRequest(r)
    \/ \E h \in held : Unpin(h) \/ \E s \in DiffSteps : Touch(h, s)

CacheSpec == CacheInit /\ [][CacheNext]_cacheVars

(***************************************************************************)
(* Properties.                                                             *)
(***************************************************************************)
CacheTypeOK ==
    /\ DOMAIN pages \subseteq 0..(next_id - 1)
    /\ \A id \in DOMAIN pages : pages[id] \in Page
    /\ next_id \in 0..MaxPages
    /\ held \subseteq Handle

(* A request that has not unpinned a page finds it, whatever the other     *)
(* requests allocate, unpin and release, and through ids of theirs that    *)
(* outlived their pages: eviction takes unpinned pages only, and an id     *)
(* never comes to name the page of somebody else.                          *)
PinnedPagesStay ==
    \A h \in held :
        /\ h.pinned => h.page_id \in DOMAIN pages
        /\ h.page_id \in DOMAIN pages =>
              /\ pages[h.page_id].request_id = h.request_id
              /\ pages[h.page_id].in_use = h.pinned

=============================================================================
