---------------------------- MODULE MCRemoteStorage ----------------------------
(* Three frames and three names, of which two are automatic ones (a        *)
(* program may choose them too); the frames are interchangeable.           *)
EXTENDS RemoteStorage, TLC

CONSTANTS f1, f2, f3, frame_0, frame_1, other

MCAutoNames == <<frame_0, frame_1>>

Symmetry == Permutations(Frame)
================================================================================
