------------------------------- MODULE Lists --------------------------------
(***************************************************************************)
(* The circular lists of list.h.  A head and an entry are the same cell;   *)
(* an operation is its assignments, in the order of the code, since prev   *)
(* and next may be the same cell.  What the operation means for the list   *)
(* as a sequence is kept beside it, in seq, and never read by it.          *)
(***************************************************************************)
EXTENDS Naturals, SequencesExt

CONSTANTS ListHead, Entry           \* the heads of lists and the entries of callers

Cell == ListHead \union Entry
POISON1 == "poison1"
POISON2 == "poison2"
LOST == <<"lost">>              \* the contents of a head left as it was by a splice

VARIABLES
    s,          \* s.next[c] and s.prev[c]
    seq,        \* what is on the list of each head; LOST when it has no list
    head,       \* of an iteration: its list, or POISON1 when there is none
    back,       \* ... whether it goes backwards
    pos, n,     \* ... its cursor, and the next cell of a safe one (or POISON1)
    todo        \* ... the entries it still has to meet, pos being the first
vars == <<s, seq, head, back, pos, n, todo>>
iteration == <<head, back, pos, n, todo>>

Init ==
    /\ s = [next |-> [c \in Cell |-> IF c \in ListHead THEN c ELSE POISON1],
            prev |-> [c \in Cell |-> IF c \in ListHead THEN c ELSE POISON2]]
    /\ seq = [h \in ListHead |-> <<>>]
    /\ head = POISON1 /\ back = FALSE /\ pos = POISON1 /\ n = POISON1 /\ todo = <<>>

Lists == {h \in ListHead : seq[h] # LOST}
On(h) == {seq[h][i] : i \in DOMAIN seq[h]}
Off == Entry \ UNION {On(h) : h \in Lists}
Place(h, e) == CHOOSE i \in DOMAIN seq[h] : seq[h][i] = e
Idle == head = POISON1 /\ UNCHANGED iteration

\* INIT_LIST_HEAD, __list_add and __list_del.
InitHead(l, c) == [l EXCEPT !.next[c] = c, !.prev[c] = c]
AddBetween(l, new, prev, next) ==
    [l EXCEPT !.prev[next] = new, !.next[new] = next, !.prev[new] = prev, !.next[prev] = new]
Join(l, prev, next) == [l EXCEPT !.prev[next] = prev, !.next[prev] = next]
Unlink(l, e) == Join(l, l.prev[e], l.next[e])
AddAfter(l, new, c) == AddBetween(l, new, c, l.next[c])
AddBefore(l, new, c) == AddBetween(l, new, l.prev[c], c)
IsEmpty(c) == s.next[c] = c

----------------------------------------------------------------------------
\* list_add and list_add_tail at a head, or after and before an entry.
AddHere(e, h) ==
    /\ Idle /\ e \in Off
    /\ \/ s' = AddAfter(s, e, h) /\ seq' = [seq EXCEPT ![h] = <<e>> \o @]
       \/ s' = AddBefore(s, e, h) /\ seq' = [seq EXCEPT ![h] = @ \o <<e>>]
       \/ \E c \in On(h) :
            \/ s' = AddAfter(s, e, c) /\ seq' = [seq EXCEPT ![h] = InsertAt(@, Place(h, c) + 1, e)]
            \/ s' = AddBefore(s, e, c) /\ seq' = [seq EXCEPT ![h] = InsertAt(@, Place(h, c), e)]

Poisoned(l, e) == [l EXCEPT !.next[e] = POISON1, !.prev[e] = POISON2]
Without(e) == [h \in ListHead |-> IF e \in On(h) THEN RemoveAt(seq[h], Place(h, e)) ELSE seq[h]]

Delete(e) ==
    /\ Idle /\ e \notin Off
    /\ s' = Poisoned(Unlink(s, e), e) /\ seq' = Without(e)
\* An initialised entry may be deleted and initialised again, or moved.
DeleteInit(e) ==
    /\ Idle /\ (e \notin Off \/ IsEmpty(e))
    /\ s' = InitHead(Unlink(s, e), e) /\ seq' = Without(e)
MoveTo(l, e, h, tail) == IF tail THEN AddBefore(Unlink(l, e), e, h) ELSE AddAfter(Unlink(l, e), e, h)
Moved(e, h, tail) == [Without(e) EXCEPT ![h] = IF tail THEN @ \o <<e>> ELSE <<e>> \o @]
Move(e, h, tail) ==
    /\ Idle /\ (e \notin Off \/ IsEmpty(e))
    /\ s' = MoveTo(s, e, h, tail) /\ seq' = Moved(e, h, tail)

RotateLeft(h) ==
    /\ Idle
    /\ s' = IF IsEmpty(h) THEN s ELSE MoveTo(s, s.next[h], h, TRUE)
    /\ seq' = [seq EXCEPT ![h] = IF @ = <<>> THEN @ ELSE Tail(@) \o <<Head(@)>>]

\* list_replace of an entry on a list, or of a head: then new has the list.
\* The old cell keeps its pointers unless it is initialised again.
ReplaceBy(l, old, new) ==
    LET a == [l EXCEPT !.next[new] = l.next[old], !.prev[l.next[old]] = new]
        b == [a EXCEPT !.prev[new] = a.prev[old]]
    IN  [b EXCEPT !.next[b.prev[new]] = new]
Replace(old, new, init) ==
    /\ Idle /\ old # new
    /\ \/ /\ old \in Entry \ Off /\ new \in Off
          /\ seq' = [h \in ListHead |-> IF h \in Lists
                        THEN [i \in DOMAIN seq[h] |-> IF seq[h][i] = old THEN new ELSE seq[h][i]]
                        ELSE LOST]
       \/ /\ old \in Lists /\ new \in ListHead /\ seq[new] \in {<<>>, LOST}
          /\ seq' = [seq EXCEPT ![new] = seq[old], ![old] = IF init THEN <<>> ELSE LOST]
    /\ s' = IF init THEN InitHead(ReplaceBy(s, old, new), old) ELSE ReplaceBy(s, old, new)

\* list_is_singular and list_cut_position: e on the list of h, or h itself.
\* Whatever was on the list of l is lost, but an empty h leaves l alone.
IsSingular(h) == ~IsEmpty(h) /\ s.next[h] = s.prev[h]
CutAt(l, h, e) ==
    LET first == s.next[e]
        a == [s EXCEPT !.next[l] = s.next[h], !.prev[s.next[h]] = l]
    IN  [a EXCEPT !.prev[l] = e, !.next[e] = l, !.next[h] = first, !.prev[first] = h]
CutPosition(l, h, e) ==
    /\ Idle /\ l # h /\ seq[l] \in {<<>>, LOST} /\ e \in On(h) \union {h}
    /\ s' = IF IsEmpty(h) \/ (IsSingular(h) /\ s.next[h] # e /\ h # e) THEN s
            ELSE IF e = h THEN InitHead(s, l) ELSE CutAt(l, h, e)
    /\ LET i == IF e = h THEN 0 ELSE Place(h, e)
       IN  seq' = IF seq[h] = <<>> THEN seq
                  ELSE [seq EXCEPT ![l] = SubSeq(seq[h], 1, i), ![h] = SubSeq(@, i + 1, Len(@))]

\* The four splices: all of l goes to the front or the end of h, and l is
\* initialised or left as it was.
SpliceBetween(l, prev, next) ==
    LET first == s.next[l]
        last == s.prev[l]
    IN  [s EXCEPT !.prev[first] = prev, !.next[prev] = first,
                  !.next[last] = next, !.prev[next] = last]
Splice(l, h, tail, init) ==
    /\ Idle /\ l # h
    /\ LET a == IF tail THEN SpliceBetween(l, s.prev[h], h) ELSE SpliceBetween(l, h, s.next[h])
       IN  s' = IF IsEmpty(l) THEN s ELSE IF init THEN InitHead(a, l) ELSE a
    /\ seq' = [seq EXCEPT ![h] = IF tail THEN @ \o seq[l] ELSE seq[l] \o @,
                          ![l] = IF init \/ @ = <<>> THEN <<>> ELSE LOST]
Reinit(h) == Idle /\ h \notin Lists /\ s' = InitHead(s, h) /\ seq' = [seq EXCEPT ![h] = <<>>]

----------------------------------------------------------------------------
\* The iterations: from the first entry, from one in the middle or after
\* one (continue), in both directions, safe against removal or not.
Follow(c) == IF back' THEN s'.prev[c] ELSE s'.next[c]
Iterate(h, safe) ==
    /\ head = POISON1 /\ head' = h /\ back' \in BOOLEAN /\ UNCHANGED <<s, seq>>
    /\ \E c \in On(h) \union {h}, after \in BOOLEAN :
          LET ahead == IF back' THEN Reverse(seq[h]) ELSE seq[h]
              i == IF c = h THEN 0 ELSE CHOOSE j \in DOMAIN ahead : ahead[j] = c
          IN  /\ c = h => after
              /\ pos' = IF after THEN Follow(c) ELSE c
              /\ todo' = SubSeq(ahead, IF after THEN i + 1 ELSE i, Len(ahead))
    /\ n' = IF safe THEN Follow(pos') ELSE POISON1

(* Mutant: the next entry is read after the body. *)
AdvanceLate == pos' = Follow(pos) /\ n' = IF n = POISON1 THEN POISON1 ELSE Follow(n)
\* One round: the body may take pos off a safe iteration's list; it may add
\* an entry at the end in any other; then the cursor moves on.
Advance ==
    /\ pos' = IF n = POISON1 THEN Follow(pos) ELSE n
    /\ n' = IF n = POISON1 THEN POISON1 ELSE Follow(n)
Round ==
    /\ head # POISON1 /\ pos # head
    /\ \/ UNCHANGED <<s, seq>> /\ todo' = Tail(todo)
       \/ /\ n # POISON1 /\ todo' = Tail(todo)
          /\ \/ s' = Poisoned(Unlink(s, pos), pos) /\ seq' = Without(pos)
             \/ s' = InitHead(Unlink(s, pos), pos) /\ seq' = Without(pos)
             \/ \E h \in Lists \ {head}, tail \in BOOLEAN :
                    s' = MoveTo(s, pos, h, tail) /\ seq' = Moved(pos, h, tail)
       \/ /\ n = POISON1 /\ ~back
          /\ \E e \in Off : /\ s' = AddBefore(s, e, head)
                            /\ seq' = [seq EXCEPT ![head] = Append(@, e)]
                            /\ todo' = Append(Tail(todo), e)
    /\ UNCHANGED <<head, back>> /\ Advance
Finish ==
    /\ head # POISON1 /\ pos = head
    /\ head' = POISON1 /\ back' = FALSE /\ pos' = POISON1 /\ n' = POISON1 /\ todo' = <<>>
    /\ UNCHANGED <<s, seq>>

Next ==
    \/ \E h \in Lists :
          \/ \E e \in Entry : AddHere(e, h) \/ \E tail \in BOOLEAN : Move(e, h, tail)
          \/ RotateLeft(h) \/ \E safe \in BOOLEAN : Iterate(h, safe)
          \/ \E l \in ListHead, e \in Cell : CutPosition(l, h, e)
          \/ \E l \in Lists, tail, init \in BOOLEAN : Splice(l, h, tail, init)
    \/ \E e \in Entry : Delete(e) \/ DeleteInit(e)
    \/ \E old, new \in Cell, init \in BOOLEAN : Replace(old, new, init)
    \/ \E h \in ListHead : Reinit(h)
    \/ Round \/ Finish
Spec == Init /\ [][Next]_vars

----------------------------------------------------------------------------
ListsTypeOK ==
    /\ s.next \in [Cell -> Cell \union {POISON1}] /\ s.prev \in [Cell -> Cell \union {POISON2}]
    /\ \A h \in Lists : seq[h] \in Seq(Entry)

\* Following next from a head meets the entries of its list and comes back,
\* following prev meets them in the opposite order, after every sequence of
\* operations, also with a list of one entry and with neighbours moved.
RingsAreSequences ==
    \A h \in Lists :
        LET ring == <<h>> \o seq[h] \o <<h>>
        IN  \A i \in 1 .. Len(ring) - 1 : s.next[ring[i]] = ring[i + 1] /\ s.prev[ring[i + 1]] = ring[i]

\* An iteration is always at the next entry it has to meet, and ends at the
\* head when none is left: it meets every entry once, also when its body
\* deletes or moves the one it is at.
IterationMeetsAll ==
    head # POISON1 => pos = IF todo = <<>> THEN head ELSE todo[1]
============================================================================
