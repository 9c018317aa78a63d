-------------------------- MODULE MCSettingsFiles --------------------------
(* Model-checking instances of SettingsFiles. *)
EXTENDS SettingsFiles, TLC

CONSTANTS a, b, k1, k2   \* two connections and two keys

OneKey == [NoSecrets EXCEPT ![a] = k1]

(* A configured server: connection `a' with a key. *)
Configured == <<[connections |-> {a}, rate |-> DefaultRate, by |-> 0, saved |-> OneKey],
                [secret |-> OneKey, by |-> 0]>>

MCConfiguredFiles == {Configured}

(* A first run, a configured server, and every pair with an unreadable     *)
(* file a server can find.                                                 *)
MCInitialFiles ==
  {<<None, None>>, Configured, <<Broken, Configured[2]>>, <<Configured[1], Broken>>,
   <<Broken, Broken>>}

(* Request slots are interchangeable (safety runs only). *)
Interchangeable == Permutations(Requests)
=============================================================================
