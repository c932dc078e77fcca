------------------------- MODULE MCMaterializeLoop -------------------------
(***************************************************************************)
(* A small instance of MaterializeLoop: a chain of delegations two long,   *)
(* two Managers who vouch for each other, an owner block and an owner pin, *)
(* and two grants on one cell.                                             *)
(***************************************************************************)
EXTENDS MaterializeLoop

CONSTANTS o, a, b, c, v, f

MCPeers == {o, a, b, c}
MCScopes == {v, f}
MCChain == [s \in MCScopes |-> {s, v}]

Stmt(g, p, s, r, rev) ==
    [scope |-> s, peer |-> p, grantor |-> g, role |-> r, revoked |-> rev, hlc |-> 1]

MCStatements ==
    { Stmt(o, a, v, Manager, FALSE),
      Stmt(o, c, f, None, TRUE),
      Stmt(o, a, f, Viewer, FALSE),
      Stmt(a, b, f, Manager, FALSE),
      Stmt(a, c, v, Viewer, FALSE),
      Stmt(b, c, f, Manager, FALSE),
      Stmt(c, b, f, Manager, FALSE),
      Stmt(b, c, v, None, TRUE),
      Stmt(c, a, f, Editor, FALSE),
      Stmt(a, c, f, Editor, FALSE) }
=============================================================================
