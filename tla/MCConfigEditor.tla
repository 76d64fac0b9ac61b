-------------------------- MODULE MCConfigEditor ---------------------------
(* Constant values for model-checking ConfigEditor. *)
EXTENDS ConfigEditor

Keyed(ips) == [key |-> "set", ips |-> ips]

\* One connection, whose file has one peer with the range, or two without.
EditorFiles ==
  { <<[iface |-> {}, peers |-> <<Keyed({1})>>]>>,
    <<[iface |-> {1}, peers |-> <<Keyed({}), Keyed({})>>]>> }
=============================================================================
