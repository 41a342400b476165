---------------------------- MODULE KvCacheCalls ----------------------------
(***************************************************************************)
(* The block manager under every sequence of calls its doc comments allow: *)
(* allocate for a new request, grow for one that holds blocks, free at any *)
(* time.  The simulator never calls grow, so this module is where it runs. *)
(***************************************************************************)
EXTENDS KvCacheManager

CONSTANT TokenCounts   \* the token counts that callers ask for

ASSUME KvCallsAssumption == TokenCounts \subseteq Nat

VARIABLES kv,      \* the manager
          tokens   \* history: the tokens each holder was granted room for

kv_vars == <<kv, tokens>>

Holders == DOMAIN kv.allocated

KvInit == kv = NewKvCache /\ tokens = Empty

\* A caller learns of a grant from the Result.
AllocateCall ==
  \E r \in RequestId \ Holders, n \in TokenCounts :
    /\ kv' = Allocate(kv, r, n)
    /\ tokens' = IF r \in DOMAIN kv'.allocated THEN With(tokens, r, n) ELSE tokens

GrowCall ==
  \E r \in Holders, n \in TokenCounts :
    /\ kv' = Grow(kv, r, n)
    /\ tokens' = IF GrowthBlocks(kv, r, n) <= kv.free_blocks
                 THEN [tokens EXCEPT ![r] = @ + n] ELSE tokens

FreeCall ==
  \E r \in Holders :
    /\ kv' = Free(kv, {r})
    /\ tokens' = Without(tokens, r)

KvNext == AllocateCall \/ GrowCall \/ FreeCall

KvSpec == KvInit /\ [][KvNext]_kv_vars

-----------------------------------------------------------------------------
\* The counter and the map are well formed, and the history follows the map.
KvTypeOK ==
  /\ kv.free_blocks \in 0 .. TotalBlocks
  /\ Holders \subseteq RequestId
  /\ \A r \in Holders : kv.allocated[r] \in 0 .. TotalBlocks
  /\ DOMAIN tokens = Holders
  /\ \A r \in Holders : tokens[r] \in Nat

\* No sequence of grants, refusals and releases loses or invents a block: the
\* free_blocks counter and the map kept beside it add up to the pool.
BlocksConserved ==
  kv.free_blocks + Total(Holders, kv.allocated) = TotalBlocks

\* A holder always has blocks for every token it was granted, whatever mix of
\* allocate and grow got it there.
RoomForGrantedTokens ==
  \A r \in Holders : tokens[r] <= kv.allocated[r] * BlockSize
=============================================================================
