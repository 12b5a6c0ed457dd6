------------------------------- MODULE HLists -------------------------------
(***************************************************************************)
(* The lists with a single pointer as head of list.h.  A node points back  *)
(* at the pointer that points to it: the first of a head, or the next of   *)
(* another node, so a cell stands for its one pointer and pprev names a    *)
(* cell.  seq is what each list means, as in Lists.                        *)
(***************************************************************************)
EXTENDS Naturals, SequencesExt

CONSTANTS ListHead, Entry

Cell == ListHead \union Entry
NULL == "null"
POISON1 == "poison1"
POISON2 == "poison2"

VARIABLES
    s,              \* s.next[c]: first of a head, next of a node; s.pprev[e]
    seq,            \* the list of each head
    head, pos, todo \* an iteration: its list, its cursor, what it has to meet
vars == <<s, seq, head, pos, todo>>
iteration == <<head, pos, todo>>

Init ==
    /\ s = [next |-> [c \in Cell |-> NULL], pprev |-> [e \in Entry |-> NULL]]
    /\ seq = [h \in ListHead |-> <<>>]
    /\ head = NULL /\ pos = NULL /\ todo = <<>>

On(h) == {seq[h][i] : i \in DOMAIN seq[h]}
Listed == UNION {On(h) : h \in ListHead}
Place(h, e) == CHOOSE i \in DOMAIN seq[h] : seq[h][i] = e
Without(e) == [h \in ListHead |-> IF e \in On(h) THEN RemoveAt(seq[h], Place(h, e)) ELSE seq[h]]
Idle == head = NULL /\ UNCHANGED iteration

Unhashed(e) == s.pprev[e] = NULL
\* Entries that an addition may take: a fake one appears to be on a list.
Off == {e \in Entry \ Listed : s.pprev[e] # e}

\* if (next) next->pprev = c, of the next that c has after the assignment.
Backed(l, c) == IF l.next[c] = NULL THEN l ELSE [l EXCEPT !.pprev[l.next[c]] = c]
AddAt(l, e, c) == Backed([l EXCEPT !.next[c] = e, !.next[e] = l.next[c], !.pprev[e] = c], e)
DeleteFrom(l, e) == Backed([l EXCEPT !.next[l.pprev[e]] = l.next[e]], l.pprev[e])
Poisoned(l, e) == [l EXCEPT !.next[e] = POISON1, !.pprev[e] = POISON2]
Cleared(l, e) == [l EXCEPT !.next[e] = NULL, !.pprev[e] = NULL]

----------------------------------------------------------------------------
\* hlist_add_head, and hlist_add_before and hlist_add_after an entry c; the
\* one before reaches the pointer to c through its pprev.
AddBefore(l, e, c) ==
    LET a == [l EXCEPT !.pprev[e] = l.pprev[c], !.next[e] = c, !.pprev[c] = e]
    IN  [a EXCEPT !.next[a.pprev[e]] = e]
AddHere(e, h) ==
    /\ Idle /\ e \in Off
    /\ \/ s' = AddAt(s, e, h) /\ seq' = [seq EXCEPT ![h] = <<e>> \o @]
       \/ \E c \in On(h) :
            \/ s' = AddBefore(s, e, c) /\ seq' = [seq EXCEPT ![h] = InsertAt(@, Place(h, c), e)]
            \/ s' = AddAt(s, e, c) /\ seq' = [seq EXCEPT ![h] = InsertAt(@, Place(h, c) + 1, e)]

\* hlist_del of an entry on a list, or of a fake one; hlist_del_init also of
\* one that is on none, if it is not poisoned.
Delete(e) ==
    /\ Idle /\ ~Unhashed(e) /\ s.pprev[e] # POISON2
    /\ s' = Poisoned(DeleteFrom(s, e), e) /\ seq' = Without(e)
DeletedInit(l, e) == IF Unhashed(e) THEN l ELSE Cleared(DeleteFrom(l, e), e)
DeleteInit(e) ==
    /\ Idle /\ s.pprev[e] # POISON2
    /\ s' = DeletedInit(s, e) /\ seq' = Without(e)
InitNode(e) == Idle /\ e \notin Listed /\ s' = Cleared(s, e) /\ UNCHANGED seq
AddFake(e) == Idle /\ Unhashed(e) /\ s' = [s EXCEPT !.pprev[e] = e] /\ UNCHANGED seq

\* What was on the list of the new head would be lost.
MoveList(old, new) ==
    /\ Idle /\ old # new /\ seq[new] = <<>>
    /\ s' = [Backed([s EXCEPT !.next[new] = s.next[old]], new) EXCEPT !.next[old] = NULL]
    /\ seq' = [seq EXCEPT ![new] = seq[old], ![old] = <<>>]

----------------------------------------------------------------------------
\* The iterations: from the first node, from a node or after one.
Iterate(h) ==
    /\ head = NULL /\ head' = h /\ UNCHANGED <<s, seq>>
    /\ \/ pos' = s.next[h] /\ todo' = seq[h]
       \/ \E c \in On(h) :
            \/ pos' = c /\ todo' = SubSeq(seq[h], Place(h, c), Len(seq[h]))
            \/ pos' = s.next[c] /\ todo' = SubSeq(seq[h], Place(h, c) + 1, Len(seq[h]))

\* One round of hlist_for_each, whose body may add behind pos, and of
\* hlist_for_each_safe, whose body may delete pos or put it on another list:
\* it reads the next node before the body.
Round ==
    /\ head # NULL /\ pos # NULL /\ UNCHANGED head
    /\ \/ UNCHANGED <<s, seq>> /\ todo' = Tail(todo) /\ pos' = s.next[pos]
       \/ \E e \in Off :
            /\ s' = AddAt(s, e, pos) /\ seq' = [seq EXCEPT ![head] = InsertAt(@, Place(head, pos) + 1, e)]
            /\ todo' = <<e>> \o Tail(todo) /\ pos' = s'.next[pos]
       \/ /\ pos' = s.next[pos] /\ todo' = Tail(todo)
          /\ \/ s' = Poisoned(DeleteFrom(s, pos), pos) /\ seq' = Without(pos)
             \/ \E h \in ListHead \ {head} :
                  /\ s' = AddAt(DeletedInit(s, pos), pos, h)
                  /\ seq' = [Without(pos) EXCEPT ![h] = <<pos>> \o @]
Finish ==
    /\ head # NULL /\ pos = NULL /\ UNCHANGED <<s, seq, pos>>
    /\ head' = NULL /\ todo' = <<>>

Next ==
    \/ \E e \in Entry :
          \/ \E h \in ListHead : AddHere(e, h)
          \/ Delete(e) \/ DeleteInit(e) \/ InitNode(e) \/ AddFake(e)
    \/ \E old, new \in ListHead : MoveList(old, new)
    \/ \E h \in ListHead : Iterate(h)
    \/ Round \/ Finish
Spec == Init /\ [][Next]_vars

----------------------------------------------------------------------------
HListsTypeOK ==
    /\ s.next \in [Cell -> Entry \union {NULL, POISON1}]
    /\ s.pprev \in [Entry -> Cell \union {NULL, POISON2}]
    /\ seq \in [ListHead -> Seq(Entry)]

\* From a head, next meets the entries of its list and ends, and the pprev
\* of each names the pointer that points to it: so the entry can be deleted
\* knowing nothing else, after additions before it, after it and moves.
ChainsAreSequences ==
    \A h \in ListHead :
        LET chain == <<h>> \o seq[h]
        IN  /\ \A i \in DOMAIN seq[h] :
                  s.next[chain[i]] = seq[h][i] /\ s.pprev[seq[h][i]] = chain[i]
            /\ s.next[Last(chain)] = NULL

\* An iteration is at the next entry it has to meet and ends after the last,
\* also when its body deletes or moves the one it is at.
IterationMeetsAll == head # NULL => pos = IF todo = <<>> THEN NULL ELSE todo[1]
============================================================================
