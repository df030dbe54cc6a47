---------------------------- MODULE MCP9Server ----------------------------
(***************************************************************************)
(* Instances of P9Server for TLC.                                          *)
(***************************************************************************)
EXTENDS P9Server

MCCoroutines == 0..MaxMsgs
MCNoCo == -1

R(op, f, nf, n) == [op |-> op, fid |-> f, nfid |-> nf, name |-> n, old |-> 0]

Flush == [NoReq EXCEPT !.op = "flush", !.old = 1]

\* A request that changes what the second one works on, and the second one.
MCScripts == {
    <<R("walk", 1, 2, ""), R("attach", 0, 2, "")>>,
    <<R("clunk", 1, 0, ""), R("xattrcreate", 1, 0, "")>>,
    <<R("mkdir", 1, 0, "a"), R("wopen", 1, 2, "a")>>,
    <<R("lopen", 1, 0, ""), R("read", 1, 0, "")>>,
    <<R("lopen", 1, 0, ""), Flush>>,
    <<R("read", 2, 0, ""), R("read", 2, 0, ""), R("read", 2, 0, "")>>,
    <<R("version", 0, 0, "")>>,
    <<R("xattrwalk", 1, 2, "")>>, <<R("auth", 0, 0, "")>> }
    \cup {<<R(op, 1, 1, "a")>> : op \in FileOps}

\* A tag used again as soon as its first request is answered, and flushed.
MCFlushScripts == { <<R("getattr", 1, 0, ""), R("getattr", 1, 0, ""), Flush>> }
=============================================================================
