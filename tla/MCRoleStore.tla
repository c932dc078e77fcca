---------------------------- MODULE MCRoleStore ----------------------------
(***************************************************************************)
(* Small instances of RoleStore: an owner, peers who may become Managers,  *)
(* one fractal in the verse, and statements chosen so that authority is    *)
(* delegated, cut by a pin, given back by a block and retracted.           *)
(***************************************************************************)
EXTENDS RoleStore

CONSTANTS o, a, b, c, v, f

MCPeers == {o, a, b, c}
MCScopes == {v, f}
MCChain == [s \in MCScopes |-> {s, v}]

Stmt(g, p, s, r, rev, t) ==
    [scope |-> s, peer |-> p, grantor |-> g, role |-> r, revoked |-> rev, hlc |-> t]

MCInbound ==
    { Stmt(o, a, v, Manager, FALSE, 1),
      Stmt(o, a, f, Viewer, FALSE, 1),
      Stmt(o, a, f, None, TRUE, 2),
      Stmt(a, b, f, Manager, FALSE, 1),
      Stmt(a, b, f, None, TRUE, 2),
      Stmt(b, c, f, Editor, FALSE, 2),
      Stmt(a, o, v, Viewer, FALSE, 1) }

(* This node is a Manager by a chain of two, and has statements on another *)
(* device.                                                                 *)
MCDelegated ==
    { Stmt(o, a, v, Manager, FALSE, 1),
      Stmt(o, a, v, None, TRUE, 2),
      Stmt(a, b, f, Manager, FALSE, 1),
      Stmt(b, c, f, Editor, FALSE, 2) }

MCOthers == {st \in MCDelegated : st.grantor # b}
=============================================================================
