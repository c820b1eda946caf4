------------------------------- MODULE Index -------------------------------
(***************************************************************************)
(* What an index promises to the threads that share it: it is a set of     *)
(* <<key, rid>> entries; insert and remove take effect at one instant      *)
(* between call and return and answer according to that instant; a lookup  *)
(* or a scan answers every entry it asks for that was there throughout,    *)
(* and none that was never there meanwhile.                                *)
(***************************************************************************)
EXTENDS Integers

CONSTANTS Thread, Entry,
          LeastEntries          \* the <<key, rid>> a lookup or a scan starts from

VARIABLES contents,
          calls                 \* Thread -> what it called and what it was told

indexVars == <<contents, calls>>

NoCall == [kind |-> "none", entry |-> <<>>, answer |-> <<"none", {}>>,
           always |-> {}, ever |-> {}]

Updates == {"insert", "remove"}
Lookups == {"get", "scan"}

Called(kind, e, seen) ==
  [NoCall EXCEPT !.kind = kind, !.entry = e, !.always = seen, !.ever = seen]

Answered(answer) == [NoCall EXCEPT !.kind = "done", !.answer = answer]

\* The entries a lookup of kind k from key asks for.
AskedFor(kind, key) ==
  {e \in Entry : e[1] = key \/ (kind = "scan" /\ e[1] > key)}

Init ==
  /\ contents \subseteq Entry
  /\ calls = [t \in Thread |-> NoCall]

CallUpdate(t, kind, e) ==
  /\ calls[t] = NoCall
  /\ calls' = [calls EXCEPT ![t] = Called(kind, e, {})]
  /\ UNCHANGED contents

CallLookup(t, kind, e) ==
  /\ calls[t] = NoCall
  /\ calls' = [calls EXCEPT ![t] = Called(kind, e, contents)]
  /\ UNCHANGED contents

\* Thread t is told answer and the index becomes new, which the lookups that
\* are under way take notice of.
Effect(t, new, answer) ==
  /\ contents' = new
  /\ calls' = [u \in Thread |->
       IF u = t THEN Answered(answer)
       ELSE IF calls[u].kind \in Lookups
            THEN [calls[u] EXCEPT !.always = @ \cap new, !.ever = @ \cup new]
            ELSE calls[u]]

Insert(t) ==
  /\ calls[t].kind = "insert"
  /\ IF calls[t].entry \in contents
     THEN Effect(t, contents, <<"duplicate", {}>>)
     ELSE Effect(t, contents \cup {calls[t].entry}, <<"ok", {}>>)

Remove(t) ==
  /\ calls[t].kind = "remove"
  /\ IF calls[t].entry \in contents
     THEN Effect(t, contents \ {calls[t].entry}, <<"ok", {}>>)
     ELSE Effect(t, contents, <<"not_found", {}>>)

Answer(t) ==
  LET c == calls[t] IN
  /\ c.kind \in Lookups
  /\ \E found \in SUBSET (AskedFor(c.kind, c.entry[1]) \cap c.ever) :
       /\ AskedFor(c.kind, c.entry[1]) \cap c.always \subseteq found
       /\ Effect(t, contents, <<"values", found>>)

Return(t) ==
  /\ calls[t].kind = "done"
  /\ calls' = [calls EXCEPT ![t] = NoCall]
  /\ UNCHANGED contents

Next ==
  \E t \in Thread :
    \/ \E kind \in Updates, e \in Entry : CallUpdate(t, kind, e)
    \/ \E kind \in Lookups, e \in LeastEntries : CallLookup(t, kind, e)
    \/ Insert(t)
    \/ Remove(t)
    \/ Answer(t)
    \/ Return(t)

Spec == Init /\ [][Next]_indexVars
=============================================================================
