---------------------------- MODULE MCPagination ----------------------------
(* Three URLs; the second and the third are linked to by way of a proxy's   *)
(* origin as well.                                                          *)
EXTENDS Pagination

CONSTANTS u1, u2, u3

MCLinks == [origin : {"base", "proxy"}, url : {u2, u3}] \cup [origin : {"base"}, url : {u1}]

MCResolve == [l \in MCLinks |-> l.url]

MCResults == {<<>>, <<1>>, <<2, 3>>}

=============================================================================
