----------------------------- MODULE MCBlockCache -----------------------------
(***************************************************************************)
(* Instances of BlockCache for TLC.                                        *)
(***************************************************************************)
EXTENDS BlockCache

CONSTANTS a, b

MCData == {a, b}

\* Room for three blocks: cache_init rounds it down to two slots.
MCCacheEntries == cache_entries(3)

Both == {"read", "write"}

===============================================================================
