------------------------------ MODULE MCFuture ------------------------------
(* Instances of Future for TLC.                                            *)
EXTENDS Future

CONSTANTS f1, f2, t1, t2, t3, t4, t5

TwoFutures == {f1, f2}
FiveThreads == {t1, t2, t3, t4, t5}
Do(o, f) == [op |-> o, fut |-> f]
Work(o1, o2, o3, o4, o5) ==
  [t \in FiveThreads |-> CASE t = t1 -> o1 [] t = t2 -> o2 [] t = t3 -> o3
                            [] t = t4 -> o4 [] t = t5 -> o5]

(* A future with two rival setters, two readers and a callback; a barrier  *)
(* over a future that is set and one that is let go, and over two that are *)
(* set, with a callback and a waiter.                                      *)
AllJobs ==
  { Work(Do("set", f1), Do("set", f1), Do("get", f1), Do("tryWait", f1),
         Do("addCallback", f1)),
    Work(Do("set", f1), Do("abandon", f2), Do("build", f1), Do("barrierAdd", f1),
         Do("barrierWait", f1)),
    Work(Do("set", f1), Do("set", f2), Do("build", f1), Do("barrierAdd", f1),
         Do("addCallback", f2)) }

Readers ==
  { Work(Do("set", f1), Do("get", f1), Do("idle", f1), Do("idle", f1), Do("idle", f1)) }
=============================================================================
