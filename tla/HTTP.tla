-------------------------------- MODULE HTTP --------------------------------
(***************************************************************************)
(* The hooks of the HTTP adapter (adapters/http.py) against a server with  *)
(* resources, of which each has a value or is gone.  A request has a       *)
(* method, a url and a body; Inverses are the (method, url) an inverse is  *)
(* registered for, which deletes what the request made.                    *)
(***************************************************************************)
CONSTANTS
    Gone,
    Inverses

(* What the server does; a POST makes a resource that was not there.       *)
Send(method, url, body, srv) ==
    CASE method = "GET"            -> srv
      [] method \in {"PUT", "POST"} -> [srv EXCEPT ![url] = body]
      [] method = "DELETE"         -> [srv EXCEPT ![url] = Gone]

Accepted(method, url, srv) ==
    CASE method = "PUT" -> TRUE [] method = "POST" -> srv[url] = Gone [] OTHER -> srv[url] # Gone

(* A status of 400 or more raises. *)
Run(c, srv) ==
    IF Accepted(c.method, c.url, srv)
    THEN [ok |-> TRUE, w |-> Send(c.method, c.url, c.body, srv), result |-> "2xx"]
    ELSE [ok |-> FALSE, w |-> srv, result |-> "raised"]

risk(c, srv) ==
    IF c.method = "GET" THEN "read"
    ELSE IF c.method = "POST" /\ c.url = "orders" THEN "irreversible"
    ELSE IF c.method = "DELETE" THEN "destructive" ELSE "write"

(* The simulation is a mock; the observation looks at the response alone.  *)
Simulate(c, srv)        == [ok |-> TRUE]
Observe(c, result, srv) == [ok |-> result = "2xx"]

(* A GET before; Gone stands for no snapshot.                              *)
CanSnapshot(c, srv) == TRUE
Snapshot(c, srv)    == IF c.method \in {"PUT", "DELETE"} THEN srv[c.url] ELSE Gone

Inverse(c) == <<c.method, c.url>> \in Inverses

Undo(c, snap, result, srv) ==
    IF Inverse(c)
    THEN [ok |-> Accepted("DELETE", c.url, srv), w |-> Send("DELETE", c.url, Gone, srv)]
    ELSE IF c.method = "PUT" /\ snap # Gone THEN [ok |-> TRUE, w |-> Send("PUT", c.url, snap, srv)]
    ELSE [ok |-> FALSE, w |-> srv]

reversible(c) == Inverse(c) \/ c.method = "PUT"
=============================================================================
