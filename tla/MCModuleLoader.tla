---------------------------- MODULE MCModuleLoader ----------------------------
(***************************************************************************)
(* Two initial files and four others: an import cycle (c and d), a diamond *)
(* (root and lib both import c), two names of one path, a missing file, a  *)
(* malformed one, and a name that is not UTF-8.                            *)
(***************************************************************************)
EXTENDS ModuleLoader, TLC

CONSTANTS t1, t2, t3, root, lib, c, d, gone, bad

MCInitial == <<root, lib>>
MCImports ==
  (root :> <<"std", "c.vif", "sub/../c.vif", "gone.vif">>) @@
  (lib :> <<"c.vif", "d.vif", "builtin", "xff">>) @@
  (c :> <<"d.vif">>) @@
  (d :> <<"c.vif", "bad.vif">>) @@
  (gone :> <<>>) @@
  (bad :> <<"c.vif">>)
MCNames == {"c.vif", "sub/../c.vif", "d.vif", "gone.vif", "bad.vif", "xff"}
MCNotUtf8 == {"xff"}
MCResolve ==
  [p \in Paths |->
    ("c.vif" :> c) @@ ("sub/../c.vif" :> c) @@ ("d.vif" :> d) @@ ("gone.vif" :> gone) @@ ("bad.vif" :> bad) @@ ("xff" :> lib)]
MCContents ==
  [p \in Paths |-> IF p = gone THEN "unreadable" ELSE IF p = bad THEN "malformed" ELSE "ok"]
===============================================================================
