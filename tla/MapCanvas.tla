------------------------------- MODULE MapCanvas ----------------------------
(***************************************************************************)
(* The map on a page (apps/web: map-canvas.tsx, which positions-map.tsx    *)
(* and track-map.tsx draw on, and locate-button.tsx).  Leaflet is imported *)
(* when the canvas mounts, and the answer may come after the canvas has    *)
(* been given another terrain or has gone.  New data redraw one layer; the *)
(* view is the reader's but for the first fit and for "Locate".            *)
(***************************************************************************)
EXTENDS Naturals, FiniteSets

CONSTANTS
  Terrains,      \* mission codenames
  Charted,       \* those whose world size is known
  NoTerrain,     \* no canvas on the page
  MaxPolls,      \* bound: answers the page draws
  MaxFlights,    \* bound: times "Locate" is pressed
  MaxMounts      \* bound: canvases and terrains shown, one after another

ASSUME MapCanvasAssumption ==
  /\ Charted \subseteq Terrains /\ NoTerrain \notin Terrains
  /\ {MaxPolls, MaxFlights, MaxMounts} \subseteq Nat

VARIABLES
  terrain,    \* mapCodename
  drawKey,    \* the data: which answer, and whether it has a point
  focus,      \* the nonce of the last focus asked for, 0 for none
  flown,      \* flownRef
  imports,    \* import("leaflet") under way, one for every run of the effect
  maps,       \* Leaflet maps that have not been removed
  loadError,
  stuck,      \* history: the terrain was changed under the error line
  mounts

mapCanvasVars ==
  <<terrain, drawKey, focus, flown, imports, maps, loadError, stuck, mounts>>

Data == [answer : 0 .. MaxPolls, points : BOOLEAN]
Views == {"world", "data", "focus", "reader"}
LiveMap == [mount : 1 .. MaxMounts, terrain : Terrains, drawn : Data, fit : BOOLEAN, view : Views]
Import == [mount : 1 .. MaxMounts, terrain : Terrains, cancelled : BOOLEAN, data : Data]

MapCanvasTypeOK ==
  /\ terrain \in Terrains \cup {NoTerrain} /\ drawKey \in Data
  /\ focus \in 0 .. MaxFlights /\ flown \in 0 .. focus
  /\ imports \subseteq Import /\ maps \subseteq LiveMap
  /\ loadError \in BOOLEAN /\ stuck \in BOOLEAN /\ mounts \in 0 .. MaxMounts

MapCanvasInit ==
  /\ terrain = NoTerrain /\ drawKey = [answer |-> 0, points |-> FALSE]
  /\ focus = 0 /\ flown = 0 /\ imports = {} /\ maps = {} /\ loadError = FALSE
  /\ stuck = FALSE /\ mounts = 0

-----------------------------------------------------------------------------
\* Faulty variant of Drawn: every draw that has a point fits the view.
RefitOnEveryDraw(m, data) ==
  [m EXCEPT !.drawn = data, !.fit = @ \/ data.points,
            !.view = IF data.points THEN "data" ELSE IF m.fit THEN @ ELSE "world"]

\* runDraw: the layer is cleared and built again; only the first draw that has a
\* point to show fits the view to it.
Drawn(m, data) ==
  [m EXCEPT !.drawn = data, !.fit = @ \/ data.points,
            !.view = IF m.fit THEN @ ELSE IF data.points THEN "data" ELSE "world"]

\* runFocus: a focus is flown to once.
Flies(f) == f # 0 /\ flown # f
Flown(m, f) == IF Flies(f) THEN [m EXCEPT !.view = "focus"] ELSE m

-----------------------------------------------------------------------------
\* What is rendered: the error line, or the box a map is put in.
HasBox == ~loadError

\* The effect that creates the map, after a render with this terrain.
Creates(t, boxed) ==
  /\ mounts < MaxMounts /\ mounts' = mounts + 1
  /\ loadError' = FALSE
  /\ imports' = {[i EXCEPT !.cancelled = TRUE] : i \in imports} \cup
       (IF t \in Charted /\ boxed
        THEN {[mount |-> mounts + 1, terrain |-> t, cancelled |-> FALSE, data |-> drawKey]}
        ELSE {})
  /\ maps' = {}

Mounts(t) ==
  /\ terrain = NoTerrain /\ terrain' = t
  /\ Creates(t, TRUE) /\ flown' = 0 /\ stuck' = FALSE
  /\ UNCHANGED <<drawKey, focus>>

\* The cleanup of the last effect, then the effect anew.
ChangesTerrain(t) ==
  /\ terrain \notin {NoTerrain, t} /\ terrain' = t
  /\ Creates(t, HasBox) /\ stuck' = (loadError /\ t \in Charted)
  /\ UNCHANGED <<drawKey, focus, flown>>

Unmounts ==
  /\ terrain # NoTerrain /\ terrain' = NoTerrain
  /\ imports' = {[i EXCEPT !.cancelled = TRUE] : i \in imports} /\ maps' = {}
  /\ loadError' = FALSE /\ stuck' = FALSE
  /\ UNCHANGED <<drawKey, focus, flown, mounts>>

\* Leaflet is there: a map with the data of now, not of when it was asked for.
Resolves(i) ==
  /\ imports' = imports \ {i}
  /\ IF i.cancelled
     THEN UNCHANGED <<maps, flown>>
     ELSE LET blank == [mount |-> i.mount, terrain |-> i.terrain, drawn |-> drawKey,
                        fit |-> FALSE, view |-> "world"]
          IN  /\ maps' = maps \cup {Flown(Drawn(blank, drawKey), focus)}
              /\ flown' = IF Flies(focus) THEN focus ELSE flown
  /\ UNCHANGED <<terrain, drawKey, focus, loadError, stuck, mounts>>

\* A chunk that is gone after a deploy.
ImportFails(i) ==
  /\ imports' = imports \ {i} /\ loadError' = (loadError \/ ~i.cancelled)
  /\ UNCHANGED <<terrain, drawKey, focus, flown, maps, stuck, mounts>>

\* The page has a new answer, with or without somebody on the map.
Polls ==
  /\ drawKey.answer < MaxPolls
  /\ \E points \in BOOLEAN :
       /\ drawKey' = [answer |-> drawKey.answer + 1, points |-> points]
       /\ maps' = {Drawn(m, drawKey') : m \in maps}
  /\ UNCHANGED <<terrain, focus, flown, imports, loadError, stuck, mounts>>

\* Pressed again it is another focus, though it be the same place.
Locates ==
  /\ drawKey.points /\ focus < MaxFlights /\ focus' = focus + 1
  /\ IF maps = {} THEN UNCHANGED <<maps, flown>>
     ELSE maps' = {Flown(m, focus') : m \in maps} /\ flown' = focus'
  /\ UNCHANGED <<terrain, drawKey, imports, loadError, stuck, mounts>>

Pans ==
  /\ maps' = {[m EXCEPT !.view = "reader"] : m \in maps}
  /\ UNCHANGED <<terrain, drawKey, focus, flown, imports, loadError, stuck, mounts>>

MapCanvasNext ==
  \/ \E t \in Terrains : Mounts(t) \/ ChangesTerrain(t)
  \/ Unmounts \/ Polls \/ Locates \/ Pans
  \/ \E i \in imports : Resolves(i) \/ ImportFails(i)

MapCanvasSpec == MapCanvasInit /\ [][MapCanvasNext]_mapCanvasVars

-----------------------------------------------------------------------------
\* Properties.

\* There is one map at most, of the terrain on the page, and it shows the last answer.
OneMapUpToDate ==
  /\ Cardinality(maps) <= 1
  /\ \A m \in maps : m.terrain = terrain /\ m.drawn = drawKey

\* A terrain there is a chart of is drawn, on its way, or said to have failed, unless
\* it was put in the place of one that had failed.
NeverBlank ==
  terrain \in Charted =>
    maps # {} \/ loadError \/ stuck \/ \E i \in imports : ~i.cancelled

\* Who is on the map has been in view, and every "Locate" was flown to.
ShownWhatThereIs ==
  \A m \in maps : /\ m.view = "world" => ~m.drawn.points
                  /\ focus # 0 => flown = focus

\* After the first fit only the reader moves the view, with the hand or with "Locate".
ViewIsTheReaders ==
  \A m \in maps : \A n \in maps' :
    m.fit /\ m.mount = n.mount /\ n.view # m.view => n.view = "reader" \/ flown' # flown

\* The map shows what there is, and leaves the view alone (and the variables are of
\* their types).
MapShowsWhatThereIs ==
  /\ [](MapCanvasTypeOK /\ OneMapUpToDate /\ NeverBlank /\ ShownWhatThereIs)
  /\ [][ViewIsTheReaders]_mapCanvasVars

=============================================================================
