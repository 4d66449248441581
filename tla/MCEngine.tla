------------------------------ MODULE MCEngine ------------------------------
(* The resources of the runs of Engine.  Three bytes are enough for unequal  *)
(* segments, a resume inside one and a chunk that has to be cut.             *)
EXTENDS Engine

(* Two URLs whose downloads share a file name; "a" publishes a second        *)
(* version of the same length, and one version of each has the same          *)
(* validator.                                                                *)
UrlOfTwo == <<"a", "a", "b">>
SizeOfTwo == <<3, 3, 3>>
EtagOfTwo == <<"v1", "v2", "v1">>

(* One URL that publishes a longer version. *)
UrlOfOne == <<"a", "a">>
SizeOfOne == <<2, 3>>
EtagOfOne == <<"v1", "v2">>

(* The same, in place: the second version is as long as the first. *)
SizeOfSame == <<3, 3>>

(* Two links with the same path, to files of one length. *)
UrlOfPair == <<"a", "b">>
SizeOfPair == <<3, 3>>
EtagOfPair == <<"v1", "v2">>

(* One URL whose versions differ in length and once have no validator. *)
UrlOfThree == <<"a", "a", "a">>
SizeOfThree == <<2, 3, 3>>
EtagOfThree == <<"v1", "", "v2">>
=============================================================================
