-------------------------- MODULE MCExtensionManager --------------------------
(* Instances of ExtensionManager for TLC. *)
EXTENDS ExtensionManager, TLC

CONSTANTS e1, e2, name1, name2, hook1, hook2, api, api2, c1, c2

\* Two extensions that share a point and an API; e2 hooks a point of its own too.
Hooks2      == (e1 :> <<hook1>> @@ e2 :> <<hook1, hook2>>)
APIs2       == (e1 :> {api} @@ e2 :> {api})
NamesApart2 == (e1 :> name1 @@ e2 :> name2)

\* Two extensions of one name that share a point and an API; e1 serves one of its own too.
HooksNamesake == (e1 :> <<hook1>> @@ e2 :> <<hook1>>)
APIsNamesake  == (e1 :> {api, api2} @@ e2 :> {api})
NamesShared2  == (e1 :> name1 @@ e2 :> name1)
=============================================================================
