-------------------------------- MODULE Paging --------------------------------
(***************************************************************************)
(* The pages in which the administration lists queues and white list:      *)
(* paginate of api/whitelist.go, the range its callers in domain/viron.go  *)
(* pass on, and what Redis returns for it.                                 *)
(***************************************************************************)
EXTENDS Integers, Sequences

MaxPerPage == 100

\* paginate: an absent page counts as 0, an absent per_page as MaxPerPage.
\* Neither has a lower bound.
Page(page) == IF page = 0 THEN 1 ELSE page

PerPage(perPage) == IF perPage > MaxPerPage THEN MaxPerPage ELSE perPage

Nil == -1     \* the GET of a key that does not exist

\* ZRANGE key start stop: both ends included, negative ones count from the end.
ZRange(members, start, stop) ==
    LET FromEnd(i) == IF i < 0 THEN Len(members) + i ELSE i
        first == IF FromEnd(start) < 0 THEN 0 ELSE FromEnd(start)
        end   == IF FromEnd(stop) >= Len(members) THEN Len(members) - 1 ELSE FromEnd(stop)
    IN  IF first > end THEN <<>> ELSE SubSeq(members, first + 1, end + 1)

\* What GetQueues and GetWhiteList list.  DomainsParam.Page is the start of the
\* range and DomainsParam.PerPage its end.
ListPage(members, page, perPage) ==
    LET from == Page(page) * PerPage(perPage)
        to   == PerPage(perPage) * (Page(page) - 1)
    IN  ZRange(members, from, to)

\* GetWhiteList: a page of the list and the number of all its members.
GetWhiteList(members, page, perPage) ==
    [found |-> TRUE, shown |-> ListPage(members, page, perPage), total |-> Len(members)]

\* GetQueues: the same with the numbers of each queue shown, 404 if one of them
\* has no current number.
GetQueues(members, current, permitted, page, perPage) ==
    LET shown == ListPage(members, page, perPage)
    IN  IF \E i \in DOMAIN shown : current[shown[i]] = Nil
        THEN [found |-> FALSE, shown |-> <<>>, total |-> 0]
        ELSE [found |-> TRUE,
              shown |-> [i \in DOMAIN shown |->
                            <<shown[i], current[shown[i]], permitted[shown[i]]>>],
              total |-> Len(members)]
=============================================================================
