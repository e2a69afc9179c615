--------------------------- MODULE SIPHeaderStore ---------------------------
(***************************************************************************)
(* The header store of a SIPMessage (src/sipparser/SIPMessage.cpp):       *)
(* _headers, a std::map from the lower-cased header name to a list of     *)
(* values with the offset at which the header was created, and the        *)
(* counter _headerOffSet.  parse() fills it, the hdr* mutators change it,  *)
(* commitData() writes it back out sorted by offset.                      *)
(*                                                                         *)
(* A header name is a member of Keys = 1..NumKeys, numbered in the order   *)
(* std::map<std::string,...> iterates them.  A line of the message is a    *)
(* pair <<key, value>>; the start line and the body are left out.  Every   *)
(* call holds the message's write lock, so each is one atomic step; a call *)
(* that returns without changing anything is a stuttering step and is not  *)
(* an action.                                                              *)
(***************************************************************************)
EXTENDS Naturals, Sequences, SequencesExt, FiniteSetsExt

CONSTANTS
  NumKeys,        \* how many distinct header names
  Values,         \* the non-empty values a caller may set
  Empty,          \* the empty string
  InitLines,      \* the header lines of the message first parsed
  MaxIndex,       \* the largest index passed to hdrSet(name, value, index)
  MaxOps,         \* how many mutator calls the model makes at most
  IndexOnAbsent   \* may hdrSet(name, value, index) name a header not present

Keys == 1..NumKeys
Lines == Keys \X (Values \cup {Empty})

ASSUME /\ Empty \notin Values
       /\ InitLines \in Seq(Lines)
       /\ IndexOnAbsent \in BOOLEAN

VARIABLES
  headers,     \* _headers: key -> [off |-> headerOffSet(), vals |-> the values]
  headerOffSet,\* _headerOffSet
  finalized,   \* _finalized
  data,        \* the text last written by commitData, as a sequence of lines
  created,     \* history: the keys of _headers in the order they were created
  ops          \* how many mutator calls have been made

vars == <<headers, headerOffSet, finalized, data, created, ops>>

Entry(off, vals) == [off |-> off, vals |-> vals]

\* _headers after inserting or replacing, and after erasing, key k.
Put(h, k, e) == (k :> e) @@ h
Erase(h, k) == [j \in DOMAIN h \ {k} |-> h[j]]

\* The history after k is created anew, and after k is erased.
Created(k) == Append(Remove(created, k), k)
Erased(k) == Remove(created, k)

NonEmptyVals(h, k) ==
  IF k \in DOMAIN h THEN SelectSeq(h[k].vals, LAMBDA v : v # Empty) ELSE <<>>

------------------------------------------------------------------------------
(* parse(): the loop over the header lines.  A name not yet in _headers    *)
(* is created at the next offset; a repeated name gets one more value.     *)

StoreLine(acc, l) ==
  IF l[1] \notin DOMAIN acc.h
  THEN [h |-> Put(acc.h, l[1], Entry(acc.n, <<l[2]>>)), n |-> acc.n + 1,
        order |-> Append(acc.order, l[1])]
  ELSE [acc EXCEPT !.h[l[1]].vals = Append(@, l[2])]

ParseLines(ls) ==
  FoldLeft(StoreLine, [h |-> <<>>, n |-> 0, order |-> <<>>], ls)

------------------------------------------------------------------------------
(* commitData(data): _headers is copied into a std::map keyed by offset,  *)
(* so of two headers with the same offset the one later in key order     *)
(* wins; the headers are then written in offset order, one line per      *)
(* non-empty value.                                                      *)

SortedHeader(h, o) == Max({k \in DOMAIN h : h[k].off = o})

HeaderLines(h, k) ==
  [i \in 1..Len(NonEmptyVals(h, k)) |-> <<k, NonEmptyVals(h, k)[i]>>]

CommitOffsets(h) == SetToSortSeq({h[k].off : k \in DOMAIN h}, <)

\* Mutant: commitData writes _headers in key order, without the offset sort.
CommitByKey(h) ==
  FoldLeft(LAMBDA acc, k : acc \o HeaderLines(h, k), <<>>,
           SetToSortSeq(DOMAIN h, <))

Commit(h) ==
  FoldLeft(LAMBDA acc, o : acc \o HeaderLines(h, SortedHeader(h, o)),
           <<>>, CommitOffsets(h))

------------------------------------------------------------------------------
(* The mutators.  Each needs _finalized; the ones taking a value refuse   *)
(* the empty string.                                                      *)

Mutate ==
  /\ finalized
  /\ ops < MaxOps
  /\ ops' = ops + 1
  /\ UNCHANGED <<finalized, data>>

\* Mutant: the new header takes _headerOffSet without incrementing it.
CreateNoIncrement(k, v) ==
  /\ headers' = Put(headers, k, Entry(headerOffSet, <<v>>))
  /\ UNCHANGED headerOffSet
  /\ created' = Created(k)

\* A new SIPHeaderTokens holding v at offset _headerOffSet++.
Create(k, v) ==
  /\ headers' = Put(headers, k, Entry(headerOffSet, <<v>>))
  /\ headerOffSet' = headerOffSet + 1
  /\ created' = Created(k)

\* hdrSet(name, value): a header absent or without values is created,
\* otherwise its first value is replaced.
HdrSet(k, v) ==
  /\ Mutate
  /\ IF k \notin DOMAIN headers \/ headers[k].vals = <<>>
     THEN Create(k, v)
     ELSE /\ headers' = [headers EXCEPT ![k].vals[1] = v]
          /\ UNCHANGED <<headerOffSet, created>>

\* The offset of a SIPHeaderTokens made by its default constructor.  Its
\* definition is not in the repository: any value the build may leave there.
DefaultOffsets == 0..headerOffSet

\* hdrSet(name, value, index): an absent header with index 0 is created.
\* Otherwise _headers[key] is looked up with operator[], which inserts an
\* empty SIPHeaderTokens when the header is absent; an index beyond the
\* values returns false, any other replaces that value.
HdrSetIndex(k, v, i) ==
  /\ Mutate
  /\ \/ /\ k \notin DOMAIN headers /\ i = 0
        /\ Create(k, v)
     \/ /\ k \notin DOMAIN headers /\ i > 0 /\ IndexOnAbsent
        /\ \E d \in DefaultOffsets :
             headers' = Put(headers, k, Entry(d, <<>>))
        /\ created' = Created(k)
        /\ UNCHANGED headerOffSet
     \/ /\ k \in DOMAIN headers /\ i < Len(headers[k].vals)
        /\ headers' = [headers EXCEPT ![k].vals[i + 1] = v]
        /\ UNCHANGED <<headerOffSet, created>>

\* hdrRemove(name): erases a header with at most one value.
HdrRemove(k) ==
  /\ Mutate
  /\ k \in DOMAIN headers /\ Len(headers[k].vals) <= 1
  /\ headers' = Erase(headers, k)
  /\ created' = Erased(k)
  /\ UNCHANGED headerOffSet

\* hdrListAppend and hdrListPrepend: an absent header is created, a
\* present one (even one without values) gets v at its end or front.
HdrListAdd(k, v, atFront) ==
  /\ Mutate
  /\ IF k \notin DOMAIN headers
     THEN Create(k, v)
     ELSE /\ headers' = [headers EXCEPT ![k].vals =
                            IF atFront THEN <<v>> \o @ ELSE Append(@, v)]
          /\ UNCHANGED <<headerOffSet, created>>

HdrListAppend(k, v) == HdrListAdd(k, v, FALSE)
HdrListPrepend(k, v) == HdrListAdd(k, v, TRUE)

\* hdrListPopFront(name): a header with at most one value is erased, a
\* longer list loses its first value.
HdrListPopFront(k) ==
  /\ Mutate
  /\ k \in DOMAIN headers
  /\ IF Len(headers[k].vals) <= 1
     THEN /\ headers' = Erase(headers, k)
          /\ created' = Erased(k)
     ELSE /\ headers' = [headers EXCEPT ![k].vals = Tail(@)]
          /\ UNCHANGED created
  /\ UNCHANGED headerOffSet

\* hdrListRemove(name): erases the header whatever its values.
HdrListRemove(k) ==
  /\ Mutate
  /\ k \in DOMAIN headers
  /\ headers' = Erase(headers, k)
  /\ created' = Erased(k)
  /\ UNCHANGED headerOffSet

------------------------------------------------------------------------------

\* commitData(data): the store is written out.
CommitData ==
  /\ data' = Commit(headers)
  /\ UNCHANGED <<headers, headerOffSet, finalized, created, ops>>

\* setData(data): the text is replaced (here by the message's own
\* committed text) and the message is no longer finalized.
SetData ==
  /\ finalized' = FALSE
  /\ UNCHANGED <<headers, headerOffSet, data, created, ops>>

\* parse(data): the store is cleared, _headerOffSet reset to 0 and the
\* lines stored again; the message is finalized.
Parse ==
  /\ \E r \in {ParseLines(data)} :
       /\ headers' = r.h
       /\ headerOffSet' = r.n
       /\ created' = r.order
  /\ finalized' = TRUE
  /\ UNCHANGED <<data, ops>>

Init ==
  /\ \E r \in {ParseLines(InitLines)} :
       /\ headers = r.h
       /\ headerOffSet = r.n
       /\ created = r.order
  /\ finalized = TRUE
  /\ data = InitLines
  /\ ops = 0

Next ==
  \/ \E k \in Keys, v \in Values :
       HdrSet(k, v) \/ HdrListAppend(k, v) \/ HdrListPrepend(k, v)
  \/ \E k \in Keys, v \in Values, i \in 0..MaxIndex : HdrSetIndex(k, v, i)
  \/ \E k \in Keys : HdrRemove(k) \/ HdrListPopFront(k) \/ HdrListRemove(k)
  \/ CommitData \/ SetData \/ Parse

Spec == Init /\ [][Next]_vars

------------------------------------------------------------------------------
(* Properties.                                                             *)

TypeOK ==
  /\ DOMAIN headers \subseteq Keys
  /\ \A k \in DOMAIN headers :
       /\ headers[k].off \in 0..(headerOffSet - 1)
       /\ headers[k].vals \in Seq(Values \cup {Empty})
  /\ finalized \in BOOLEAN
  /\ data \in Seq(Lines)
  /\ ops \in 0..MaxOps

\* commitData writes, for each header in the order it was created, all its
\* non-empty values in list order: no header is lost, duplicated or moved,
\* whatever sequence of hdrSet, hdrList*, hdrRemove and parse came before.
CommitMatchesInsertionOrder ==
  Commit(headers) = FoldLeft(LAMBDA acc, k : acc \o HeaderLines(headers, k),
                             <<>>, created)

=============================================================================
