---- MODULE MCBrowserSetup ----
(* A small instance of BrowserSetup. *)
EXTENDS BrowserSetup

\* A machine with a browser configuration and without a policy: everything that
\* can happen elsewhere happens here.
HalfSetUpInit == Init /\ config = Original /\ policy = None
HalfSetUp == HalfSetUpInit /\ [][Next]_vars /\ \A p \in Proc : WF_vars(UseLock(p))

====
