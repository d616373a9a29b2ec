-------------------------- MODULE MCTemplateCache ---------------------------
(* Two threads that load one template of which there is no translation. *)
EXTENDS TemplateCache

OneSize == [de |-> 1, index |-> 1]
OneLocale == {<<[exact |-> "de", language |-> "de"]>>}
=============================================================================
