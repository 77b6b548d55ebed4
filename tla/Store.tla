------------------------------- MODULE Store --------------------------------
(***************************************************************************)
(* storage.Storage as the GYDS programs use it: a map from keys to         *)
(* records, read and written one key at a time.  A record comes back from  *)
(* Get as a copy (the programs decode it anew), so two reads of one key    *)
(* give two values that no longer know of each other.                      *)
(***************************************************************************)

\* Put(key, value).
Put(s, key, value) == [k \in DOMAIN s \cup {key} |-> IF k = key THEN value ELSE s[k]]

\* Has(key).
Has(s, key) == key \in DOMAIN s

\* Get(key), or what the caller makes up when there is no such key.
GetOr(s, key, default) == IF Has(s, key) THEN s[key] ELSE default

\* Two Puts in a row that both succeed.
PutBoth(s, key1, value1, key2, value2) == Put(Put(s, key1, value1), key2, value2)
=============================================================================
