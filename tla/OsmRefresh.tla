------------------------------ MODULE OsmRefresh ------------------------------
(***************************************************************************)
(* The OSM file of a session and its earlier generations: refresh_osm and  *)
(* _rotate_osm_pbf (app/api/admin/sessions.py). A refresh first moves      *)
(* osm.pbf to osm.pbf.old.1 and each generation up by one, in separate     *)
(* renames, and only then downloads; a failed download leaves no osm.pbf.  *)
(***************************************************************************)
EXTENDS Naturals

CONSTANTS
    Generations,    \* _OSM_OLD_GENERATIONS_KEPT
    MaxOsmRefreshes, MaxOsmFaults

ASSUME OsmAssumption ==
    /\ Generations \in Nat \ {0} /\ MaxOsmRefreshes \in Nat /\ MaxOsmFaults \in Nat

VARIABLES
    osm,        \* osm[0] is osm.pbf, osm[n] is osm.pbf.old.n; 0 when absent
    age,        \* how many refreshes began since a file was osm.pbf
    osmPc,      \* where the refresh is
    shift,      \* the generation it moves next
    osmRuns, osmFaults

osmVars == <<osm, age, osmPc, shift, osmRuns, osmFaults>>

OsmVersions == 1..MaxOsmRefreshes
Places == 0..Generations

OsmInit ==
    /\ osm = [g \in Places |-> 0] /\ age = [v \in OsmVersions |-> 0]
    /\ osmPc = "idle" /\ shift = 0 /\ osmRuns = 0 /\ osmFaults = 0

RefreshOsm ==
    /\ osmPc = "idle" /\ osmRuns < MaxOsmRefreshes
    /\ osmRuns' = osmRuns + 1 /\ osmPc' = "rotate" /\ shift' = Generations
    /\ age' = [v \in OsmVersions |-> IF v <= osmRuns THEN age[v] + 1 ELSE 0]
    /\ UNCHANGED <<osm, osmFaults>>

\* One turn of _rotate_osm_pbf: the oldest is deleted, then each generation,
\* osm.pbf being the last, takes the next name. A rename or a deletion that
\* fails is logged, and the rest goes on over it.
RotateOne ==
    /\ osmPc = "rotate"
    /\ osmPc' = IF shift = 0 THEN "download" ELSE "rotate"
    /\ shift' = IF shift = 0 THEN 0 ELSE shift - 1
    /\ \/ /\ osm' = IF shift = Generations THEN [osm EXCEPT ![shift] = 0]
                    ELSE IF osm[shift] = 0 THEN osm
                    ELSE [osm EXCEPT ![shift + 1] = osm[shift], ![shift] = 0]
          /\ UNCHANGED osmFaults
       \/ osmFaults < MaxOsmFaults /\ osmFaults' = osmFaults + 1 /\ UNCHANGED osm
    /\ UNCHANGED <<age, osmRuns>>

\* The file is fetched and placed in the empty slot, or the download fails.
FetchOsm ==
    /\ osmPc = "download" /\ osmPc' = "idle"
    /\ osm' \in {osm, [osm EXCEPT ![0] = osmRuns]}
    /\ UNCHANGED <<age, shift, osmRuns, osmFaults>>

\* The process dies: the next refresh starts over.
OsmDies ==
    /\ osmPc # "idle" /\ osmPc' = "idle" /\ osmFaults < MaxOsmFaults
    /\ osmFaults' = osmFaults + 1 /\ UNCHANGED <<osm, age, shift, osmRuns>>

OsmNext == RefreshOsm \/ RotateOne \/ FetchOsm \/ OsmDies
OsmSpec == OsmInit /\ [][OsmNext]_osmVars

\* A file that was osm.pbf stays on disk until as many refreshes have begun since
\* as there are generations, whether or not they fetched anything, when no rename
\* failed and the process did not die; beyond that count, refreshes that all
\* failed have thrown away the only copy.
OsmFileKept ==
    [][\A v \in OsmVersions :
        ((\E g \in Places : osm[g] = v) /\ (\A g \in Places : osm'[g] # v))
            => (age[v] > Generations \/ osmFaults > 0)]_osmVars

\* A newer file never has a higher generation than an older one, nor two files
\* the same content, even after renames that failed and a death in between.
NewestFirst ==
    \A g, h \in Places : (g < h /\ osm[g] # 0 /\ osm[h] # 0) => osm[g] > osm[h]
=============================================================================
