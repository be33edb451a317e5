------------------------- MODULE MCResourceLibrary --------------------------
(***************************************************************************)
(* The instance of ResourceLibrary TLC checks: a project with a domain and *)
(* a term that uses it, a library that has a domain of the same name.      *)
(***************************************************************************)
EXTENDS ResourceLibrary, TLC

DomainRow(d) == [kind |-> "domain", name |-> "amount", data |-> d, domain |-> None]
TermRow(d) == [kind |-> "term", name |-> "price", data |-> 1, domain |-> d]
Own(row) == row @@ [origin |-> None]

MCStartItems == 1 :> (DomainRow(1) @@ [version |-> 1])
MCStartModel == 1 :> Own(DomainRow(2)) @@ 2 :> Own(TermRow(1))
MCData == {1, 2}

(* The domain gets another value, or the term is (un)linked or deleted.    *)
MCEntityEdits(m) ==
    {[m EXCEPT ![e].data = 3 - @] : e \in {f \in DOMAIN m : m[f].kind = "domain"}}
    \cup {[m EXCEPT ![e].domain = IF @ = None /\ 1 \in DOMAIN m THEN 1 ELSE None] :
             e \in {f \in DOMAIN m : m[f].kind = "term"}}
    \cup {Restrict(m, DOMAIN m \ {e}) : e \in {f \in DOMAIN m : m[f].kind = "term"}}

(* The file loses an entry, a kind, or everything but an empty list of     *)
(* domains, or an entry gets another value.                                *)
MCFileEdits(doc) ==
    {[doc EXCEPT !.entries = Restrict(@, DOMAIN @ \ {l})] : l \in DOMAIN doc.entries}
    \cup {[present |-> doc.present \ {k},
            entries |-> Restrict(doc.entries, {l \in DOMAIN doc.entries : doc.entries[l].kind # k})] :
              k \in {"domain", "term"}}
    \cup {[present |-> {"domain"}, entries |-> << >>]}
    \cup {[doc EXCEPT !.entries[l].data = 3 - @] : l \in DOMAIN doc.entries}
=============================================================================
