----------------------------- MODULE EntityStore -----------------------------
(***************************************************************************)
(* What the CRUD service promises a client that waits for each answer: a   *)
(* map from (entity name, id) to a JSON body.  Every request takes effect  *)
(* in one step between the call and its answer; POST stores its body under *)
(* an id that no POST or PUT has written before, even if it was deleted    *)
(* since.  The comments of crud_handler.cc and the README state the same   *)
(* per method.  CrudStore implements this when requests do not overlap.    *)
(***************************************************************************)
CONSTANTS Worker, Request, File, Id, None, NoRequest, NoReply,
          Answer(_, _, _)   \* status, id, body

VARIABLES store,    \* the body under each file
          used,     \* the files ever written
          asked,    \* the request each worker is given
          answer    \* and the answer it gives

vars == <<store, used, asked, answer>>

Init ==
  /\ store = [f \in File |-> None]
  /\ used = {}
  /\ asked = [w \in Worker |-> NoRequest]
  /\ answer = [w \in Worker |-> NoReply]

Call(w, r) ==
  /\ asked[w] = NoRequest /\ answer[w] = NoReply
  /\ asked' = [asked EXCEPT ![w] = r]
  /\ UNCHANGED <<store, used, answer>>

Return(w) ==
  /\ answer[w] # NoReply
  /\ asked' = [asked EXCEPT ![w] = NoRequest]
  /\ answer' = [answer EXCEPT ![w] = NoReply]
  /\ UNCHANGED <<store, used>>

Asked(w, op) == asked[w].op = op /\ answer[w] = NoReply
Reply(w, s, i, b) == answer' = [answer EXCEPT ![w] = Answer(s, i, b)] /\ UNCHANGED asked
Named(w) == <<asked[w].name, asked[w].id>>

Post(w) ==
  /\ Asked(w, "post") /\ asked[w].name # None /\ asked[w].id = None
  /\ \E i \in Id :
       LET f == <<asked[w].name, i>> IN
       /\ f \notin used
       /\ store' = [store EXCEPT ![f] = asked[w].body]
       /\ used' = used \cup {f}
       /\ Reply(w, 201, i, None)

Get(w) ==
  /\ Asked(w, "get") /\ asked[w].name # None /\ asked[w].id # None
  /\ IF store[Named(w)] = None THEN Reply(w, 404, None, None)
                               ELSE Reply(w, 200, None, store[Named(w)])
  /\ UNCHANGED <<store, used>>

List(w) ==
  /\ Asked(w, "get") /\ asked[w].name # None /\ asked[w].id = None
  /\ Reply(w, 200, None, {f[2] : f \in {g \in File : g[1] = asked[w].name /\ store[g] # None}})
  /\ UNCHANGED <<store, used>>

Put(w) ==
  /\ Asked(w, "put") /\ asked[w].name # None /\ asked[w].id # None
  /\ store' = [store EXCEPT ![Named(w)] = asked[w].body]
  /\ used' = used \cup {Named(w)}
  /\ IF store[Named(w)] = None THEN Reply(w, 201, asked[w].id, None)
                               ELSE Reply(w, 200, None, None)

Delete(w) ==
  /\ Asked(w, "delete") /\ asked[w].name # None /\ asked[w].id # None
  /\ store' = [store EXCEPT ![Named(w)] = None]
  /\ UNCHANGED used
  /\ Reply(w, IF store[Named(w)] = None THEN 204 ELSE 200, None, None)

\* Another method, no entity name, POST with an id, PUT or DELETE without one.
Refuse(w) ==
  /\ asked[w] # NoRequest /\ answer[w] = NoReply
  /\ \/ asked[w].op = "other" \/ asked[w].name = None
     \/ asked[w].op = "post" /\ asked[w].id # None
     \/ asked[w].op \in {"put", "delete"} /\ asked[w].id = None
  /\ Reply(w, 400, None, None)
  /\ UNCHANGED <<store, used>>

Next == \E w \in Worker :
  \/ \E r \in Request : Call(w, r)
  \/ Post(w) \/ Get(w) \/ List(w) \/ Put(w) \/ Delete(w) \/ Refuse(w) \/ Return(w)

Spec == Init /\ [][Next]_vars
==============================================================================
