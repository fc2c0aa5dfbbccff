---------------------------- MODULE MCClipboard ----------------------------
(* Configurations of Clipboard: what is verified, kept and asked.          *)
EXTENDS Clipboard

\* Files from the server go to a validator that may answer after an abort.
Base == [active |-> {"server"}, target |-> {"server"}, vfile |-> {},
         text |-> {}, vtext |-> {}, auth |-> Sides, files |-> TRUE,
         fdx |-> TRUE, always |-> FALSE, late |-> TRUE, locking |-> FALSE,
         caps |-> Sides \X {FALSE},
         overlap |-> TRUE, lists |-> {<< >>, <<1>>, <<2, 3>>}, lens |-> {1, 2},
         streams |-> {1}, ranges |-> BOOLEAN, formats |-> {"files", "text"}]

Small == [Base EXCEPT !.lists = {<<2>>}, !.lens = {1}, !.overlap = FALSE]

Files == {Base, [Base EXCEPT !.vfile = {"server"}],
          [Base EXCEPT !.target = {}, !.lists = {<<2, 9>>}],
          [Base EXCEPT !.files = FALSE], [Base EXCEPT !.auth = {}]}

\* Texts, verified before their transfer by a service that respects aborts.
Texts == {[Small EXCEPT !.text = {"server"}, !.vtext = {"server"},
                        !.vfile = {"server"}, !.late = FALSE],
          [Small EXCEPT !.text = {"server"}, !.overlap = TRUE]}

BothSides == {[Small EXCEPT !.active = Sides, !.target = Sides, !.vfile = Sides,
                            !.lists = {<<1>>}, !.ranges = {TRUE},
                            !.formats = {"files"}]}

Locked == [Small EXCEPT !.active = {"client"}, !.target = {"client"},
                        !.locking = TRUE, !.caps = {<<"client", TRUE>>},
                        !.streams = {1, 2},
                        !.ranges = {TRUE}, !.formats = {"files"}]

\* The second one gains and loses the locks as capabilities are exchanged.
WithLocks == {Locked, [Locked EXCEPT !.caps = Sides \X BOOLEAN,
                         !.always = TRUE, !.ranges = {FALSE}, !.target = {}]}

Correct == Files \cup Texts \cup BothSides \cup WithLocks

\* A text and a file verified together, or an answer after an abort.
TextsAndFiles == {[Small EXCEPT !.text = {"server"}, !.vtext = {"server"}]}
============================================================================
