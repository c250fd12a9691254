--------------------------- MODULE MCDependencyAge ---------------------------
(***************************************************************************)
(* DependencyAge for TLC: a package without a publication time, one with,  *)
(* an image that is held and one of Docker Hub, which is not; an ordinary  *)
(* update and a first-party one.                                           *)
(***************************************************************************)
EXTENDS DependencyAge

CONSTANTS plain, dated, image, hub, lock, lens

PublishedAt == [a \in {plain, dated, image, hub} |-> IF a = dated THEN 2 ELSE 0]
Additions == [c \in {lock, lens} |-> IF c = lock THEN {plain, dated} ELSE {plain, image, hub}]
PinOnly == [c \in {lock, lens} |-> IF c = lock THEN {hub} ELSE {image}]
=============================================================================
