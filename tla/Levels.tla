------------------------------- MODULE Levels -------------------------------
(***************************************************************************)
(* The level programs: of each main, the template parameters of Setup, in  *)
(* their order, the picture it gives to the constructor of Map, and the    *)
(* length of solution its test expects.                                    *)
(***************************************************************************)
EXTENDS Sequences

Level00 == [Setup |-> <<8, 24, 2, 1, 5, 0, 0>>, Expected |-> 29, base_map |->
     "........................"
  \o ".        ..     *      ."
  \o ".        ....          ."
  \o ".         ..           ."
  \o ".         .   O .      ."
  \o ".   >>R   . .   ..   O ."
  \o ".........   ..       ..."
  \o "........................"]

Level01 == [Setup |-> <<11, 10, 2, 1, 4, 0, 0>>, Expected |-> 16, base_map |->
     ".........."
  \o ".    *   ."
  \o ".        ."
  \o ". .      ."
  \o ". O  .O. ."
  \o ".        ."
  \o ".  .>G   ."
  \o ".  ....  ."
  \o ".  ....  ."
  \o ".  ...   ."
  \o "~~~~~~~~~~"]

Level02 == [Setup |-> <<12, 11, 2, 1, 5, 0, 0>>, Expected |-> 25, base_map |->
     "..........."
  \o "....      ."
  \o "....  *   ."
  \o "....      ."
  \o ". O.   v  ."
  \o ".     G< O."
  \o ".  .....  ."
  \o "........  ."
  \o "........  ."
  \o "........  ."
  \o "........  ."
  \o "~~~~~~~~~~~"]

Level03 == [Setup |-> <<10, 10, 2, 1, 5, 0, 0>>, Expected |-> 27, base_map |->
     ".........."
  \o ".    *   ."
  \o ".>B      ."
  \o ".^O    O ."
  \o ".  ~     ."
  \o ".  ~......"
  \o "..... ...."
  \o "....  ...."
  \o ". .    ..."
  \o "~~~~~~~~~~"]

Level04 == [Setup |-> <<13, 10, 1, 1, 5, 0, 0>>, Expected |-> 30, base_map |->
     ".........."
  \o ".        ."
  \o ".  >>G * ."
  \o ".  ^.    ."
  \o ".        ."
  \o "..~   ~. ."
  \o ". ~      ."
  \o ". ~~.~   ."
  \o ".   O    ."
  \o ".     .  ."
  \o ".    ..  ."
  \o ".    ..  ."
  \o "~~~~~~~~~~"]

Level05 == [Setup |-> <<9, 8, 2, 1, 5, 0, 0>>, Expected |-> 24, base_map |->
     "........"
  \o ".   *  ."
  \o ". .    ."
  \o ".O  O. ."
  \o ".      ."
  \o ".~.  . ."
  \o ". >R~~ ."
  \o ". ^.~  ."
  \o "~~~~~~~~"]

Level06 == [Setup |-> <<13, 12, 1, 1, 5, 0, 0>>, Expected |-> 36, base_map |->
     "............"
  \o ".          ."
  \o ".    ..    ."
  \o ".    ..    ."
  \o ".   ..     ."
  \o ".  ...     ."
  \o ".   .O .   ."
  \o ".   .     *."
  \o ". >B   .   ."
  \o ". ^..~     ."
  \o ". ^ ...    ."
  \o ".          ."
  \o "~~~~~~~~~~~~"]

Level07 == [Setup |-> <<12, 14, 0, 2, 4, 0, 0>>, Expected |-> 43, base_map |->
     ".............."
  \o ".            ."
  \o ".       *    ."
  \o ".            ."
  \o ".    .       ."
  \o ".            ."
  \o ". .          ."
  \o ". .          ."
  \o ". .  .   B<< ."
  \o ".    .  G<<^ ."
  \o ".       .... ."
  \o "~~~~~~~~~~~~~~"]

Level08 == [Setup |-> <<8, 18, 0, 2, 5, 0, 0>>, Expected |-> 29, base_map |->
     ".................."
  \o ".              * ."
  \o ".                ."
  \o ".  >>R        ...."
  \o ". >^G<<     ~~~..."
  \o ".......~~~  ~    ."
  \o ". .....  ~~.~    ."
  \o "~~~~~~~~~~~~~~~~~~"]

Level09 == [Setup |-> <<19, 10, 0, 2, 5, 0, 0>>, Expected |-> 37, base_map |->
     ".........."
  \o ".    *   ."
  \o ".        ."
  \o ".        ."
  \o ".        ."
  \o ".        ."
  \o ".        ."
  \o ".    .~  ."
  \o ".        ."
  \o ".        ."
  \o ".   ~~   ."
  \o ". .      ."
  \o ".     .  ."
  \o ".        ."
  \o ".        ."
  \o ".>>R  B< ."
  \o ".^.....^<."
  \o "..... ..^."
  \o "~~~~~~~~~~"]

Level10 == [Setup |-> <<14, 14, 2, 1, 6, 0, 0>>, Expected |-> 33, base_map |->
     ".............."
  \o ".  ...       ."
  \o ". .... *     ."
  \o ".    .       ."
  \o ".  O .   v.. ."
  \o ".      R<<.  ."
  \o ".   .... ..  ."
  \o ".    ... .   ."
  \o ".      . O   ."
  \o ".      . ..  ."
  \o ".      . ..  ."
  \o ".     .. ..  ."
  \o ".     ....   ."
  \o "~~~~~~~~~~~~~~"]

Level11 == [Setup |-> <<13, 14, 7, 1, 15, 0, 0>>, Expected |-> 35, base_map |->
     ".............."
  \o ".       ~~   ."
  \o ".    ~~~.~~  ."
  \o ".   ~......~ ."
  \o ".   ..  .... ."
  \o ".   .. O O . ."
  \o ".    .O.O O. ."
  \o ". * >G O  .. ."
  \o ".   ^... O.. ."
  \o ".   ^<<....  ."
  \o ".     ^ ..   ."
  \o ".     ^      ."
  \o "~~~~~~~~~~~~~~"]

Level12 == [Setup |-> <<17, 15, 2, 1, 7, 0, 0>>, Expected |-> 52, base_map |->
     "..............."
  \o ".    .        ."
  \o ".    .        ."
  \o ".    ~        ."
  \o ".   v B       ."
  \o ".   >>^       ."
  \o ".    .        ."
  \o ".         ~   ."
  \o ".           * ."
  \o ". ~.~  ~~~.   ."
  \o ".        ..   ."
  \o ".             ."
  \o ". O   ~       ."
  \o ".    .~O      ."
  \o ".    ...      ."
  \o ".    ...      ."
  \o "~~~~~~~~~~~~~~~"]

Level13 == [Setup |-> <<16, 17, 0, 2, 5, 0, 0>>, Expected |-> 44, base_map |->
     "................."
  \o ".               ."
  \o ".               ."
  \o ".     ~~~~      ."
  \o ".     ...~      ."
  \o ".     ...~   .  ."
  \o ".            .  ."
  \o ".   *       B<< ."
  \o ".            .^ ."
  \o ".            .  ."
  \o ". ...       G<< ."
  \o ".  ...       .^ ."
  \o ".            .^ ."
  \o ".            .  ."
  \o ".            .  ."
  \o "~~~~~~~~~~~~~~~~~"]

Level14 == [Setup |-> <<11, 13, 0, 2, 3, 0, 0>>, Expected |-> 24, base_map |->
     "............."
  \o ".           ."
  \o ".           ."
  \o ".         ~ ."
  \o ".  *   >B   ."
  \o ".      >R . ."
  \o ".      ^. . ."
  \o ".   .   . . ."
  \o ".   .   . . ."
  \o ".   .   . . ."
  \o "~~~~~~~~~~~~~"]

Level15 == [Setup |-> <<13, 15, 0, 2, 4, 0, 0>>, Expected |-> 34, base_map |->
     "..............."
  \o ".             ."
  \o ".             ."
  \o ".      .      ."
  \o ".      .      ."
  \o ".      .    * ."
  \o ".             ."
  \o ".   .     .   ."
  \o ".  >>R        ."
  \o ". .^ v        ."
  \o ". .G<<        ."
  \o ". ....        ."
  \o "~~~~~~~~~~~~~~~"]

Level16 == [Setup |-> <<16, 10, 0, 3, 4, 0, 0>>, Expected |-> 65, base_map |->
     ".........."
  \o ".        ."
  \o ".      * ."
  \o ".        ."
  \o ".        ."
  \o ".        ."
  \o ".        ."
  \o ".  R<< . ."
  \o ".   .^   ."
  \o ".      . ."
  \o ".   .>>G ."
  \o ".   B<<. ."
  \o ".   .    ."
  \o ".      . ."
  \o ".   .    ."
  \o "~~~~~~~~~~"]

Level17 == [Setup |-> <<16, 13, 0, 2, 5, 0, 0>>, Expected |-> 68, base_map |->
     "............."
  \o ".           ."
  \o ".           ."
  \o ".     .~    ."
  \o ".     .~    ."
  \o ".      ~G<< ."
  \o ".       >R^ ."
  \o ". ..~  ~..^ ."
  \o ". ..~~ ~..  ."
  \o ".  .~  ~.   ."
  \o ".      *    ."
  \o ".      ~    ."
  \o ".     .~    ."
  \o ".     .~    ."
  \o ".    ~~~    ."
  \o "~~~~~~~~~~~~~"]

Level18 == [Setup |-> <<16, 18, 0, 2, 4, 0, 0>>, Expected |-> 35, base_map |->
     ".................."
  \o ".                ."
  \o ".                ."
  \o ".       ..       ."
  \o ".       ..       ."
  \o ".       ..       ."
  \o ".        .       ."
  \o ". *      .       ."
  \o ".    . ~   B<<   ."
  \o ".      . .G<<^   ."
  \o ".   .  . ....    ."
  \o ".         ..     ."
  \o ".    ...         ."
  \o ".     ..         ."
  \o ".      ..~       ."
  \o "~~~~~~~~~~~~~~~~~~"]

Level19 == [Setup |-> <<13, 16, 1, 3, 7, 0, 0>>, Expected |-> 47, base_map |->
     "................"
  \o ".              ."
  \o ".   ~          ."
  \o ".~  .          ."
  \o ".. *          O."
  \o ".   B<         ."
  \o ".  >>G         ."
  \o ".  ^R<         ."
  \o ".  ^.^         ."
  \o ".  ^.^         ."
  \o ".   .^         ."
  \o ".   .          ."
  \o "~~~~~~~~~~~~~~~~"]

Level20 == [Setup |-> <<11, 17, 2, 2, 4, 0, 0>>, Expected |-> 50, base_map |->
     "................."
  \o ".               ."
  \o ".           ..  ."
  \o ".          .... ."
  \o ".   >B     .O . ."
  \o ". * >G    O   . ."
  \o ".   ..   . .... ."
  \o ".   ..~      .. ."
  \o ".   ....  .  .. ."
  \o ".   ...   .  .. ."
  \o "~~~~~~~~~~~~~~~~~"]

Level21 == [Setup |-> <<14, 13, 3, 1, 9, 0, 0>>, Expected |-> 39, base_map |->
     "............."
  \o ".           ."
  \o ".     *     ."
  \o ".     #     ."
  \o ".   O . O   ."
  \o ".           ."
  \o ".           ."
  \o ".    >B     ."
  \o ". ###^.  ## ."
  \o ". ...^O ##. ."
  \o ". .. ^<  .. ."
  \o ". ..     .. ."
  \o ". ..     .. ."
  \o "~~~~~~~~~~~~~"]

Level22 == [Setup |-> <<13, 13, 0, 1, 3, 1, 0>>, Expected |-> 45, base_map |->
     "............."
  \o ".     *     ."
  \o ".           ."
  \o ".           ."
  \o ".           ."
  \o ".           ."
  \o ".  >>R      ."
  \o ".   ..   00 ."
  \o ".   .. . 00 ."
  \o ".   ..   .. ."
  \o ".   ....... ."
  \o ".   ....... ."
  \o "~~~~~~~~~~~~~"]

Level23 == [Setup |-> <<17, 19, 0, 1, 11, 2, 0>>, Expected |-> 53, base_map |->
     "..................."
  \o ".                 ."
  \o ".                 ."
  \o ".          #      ."
  \o ".          ###### ."
  \o ".        0 .....# ."
  \o ".        111 ...# ."
  \o ". >>>>B    ...... ."
  \o ". ^...... ....... ."
  \o ". ^......0....... ."
  \o ". ^  .*#.     .   ."
  \o ". ^  . #.  .  .   ."
  \o ". ^  . #      .   ."
  \o ". ^  . #      .   ."
  \o ".    . # #    .   ."
  \o ".    .   .    .   ."
  \o "~~~~~~~~~~~~~~~~~~~"]

Level24 == [Setup |-> <<14, 10, 1, 2, 4, 1, 0>>, Expected |-> 26, base_map |->
     ".........."
  \o ".   O    ."
  \o ".   .    ."
  \o ".        ."
  \o ".        ."
  \o ".        ."
  \o ".        ."
  \o ". 000 v  ."
  \o ". 000B<* ."
  \o ".  0 R<  ."
  \o ".  ...^  ."
  \o ".  ...   ."
  \o ".   .    ."
  \o "~~~~~~~~~~"]

Level25 == [Setup |-> <<18, 15, 0, 2, 4, 1, 0>>, Expected |-> 35, base_map |->
     "..............."
  \o ".      *      ."
  \o ".             ."
  \o ".      .      ."
  \o ".             ."
  \o ".             ."
  \o ".             ."
  \o ".             ."
  \o ".      0      ."
  \o ".     ...     ."
  \o ".    0   0    ."
  \o ".             ."
  \o ".   >G 0 B<   ."
  \o ".   ^.   .^   ."
  \o ".   ^.   .    ."
  \o ".    .   .    ."
  \o ".    .   .    ."
  \o "~~~~~~~~~~~~~~~"]

Level26 == [Setup |-> <<13, 16, 1, 2, 4, 1, 0>>, Expected |-> 35, base_map |->
     "................"
  \o ".          ... ."
  \o ".          ....."
  \o ".          #...."
  \o ".          #   ."
  \o ".    O     # * ."
  \o ". B<           ."
  \o ".  R       #...."
  \o ".  ^       #...."
  \o ".  ^0      #...."
  \o ".  .########.. ."
  \o ".  ...  ........"
  \o "~~~~~~~~~~~~~~~~"]

Level27 == [Setup |-> <<16, 12, 1, 2, 5, 1, 0>>, Expected |-> 49, base_map |->
     "............"
  \o ".    O     ."
  \o ".   ..     ."
  \o ".   ..     ."
  \o ".   ..     ."
  \o ".          ."
  \o ".          ."
  \o ". #    #   ."
  \o ". ..  ..   ."
  \o ". #  0 #   ."
  \o ".          ."
  \o ". >G 0 R<* ."
  \o ". ......^  ."
  \o ". ......^  ."
  \o ". ......   ."
  \o "~~~~~~~~~~~~"]

Level28 == [Setup |-> <<14, 10, 1, 2, 4, 1, 0>>, Expected |-> 49, base_map |->
     ".........."
  \o ".    *   ."
  \o ".        ."
  \o ".        ."
  \o ". . 0    ."
  \o ". ...  # ."
  \o ".   O.   ."
  \o ".    .   ."
  \o ". #.0    ."
  \o ".    >>B ."
  \o ".   .G<< ."
  \o ".  ..... ."
  \o ".  ..... ."
  \o "~~~~~~~~~~"]

Level29 == [Setup |-> <<16, 14, 0, 2, 3, 4, 0>>, Expected |-> 45, base_map |->
     ".............."
  \o ".      *     ."
  \o ".            ."
  \o ".            ."
  \o ".            ."
  \o ".            ."
  \o ".            ."
  \o ".   R<<      ."
  \o ".   00       ."
  \o ".   00       ."
  \o ". 112233     ."
  \o ". 112233 B<< ."
  \o ". .....  ..  ."
  \o ". .......... ."
  \o ". ..... .... ."
  \o "~~~~~~~~~~~~~~"]

Level30 == [Setup |-> <<13, 15, 0, 1, 4, 0, 1>>, Expected |-> 15, base_map |->
     "..............."
  \o ".             ."
  \o ".             ."
  \o ".             ."
  \o ".    *        ."
  \o ".             ."
  \o ".    .    .T. ."
  \o ".   T         ."
  \o ".  B<<<   .   ."
  \o ". .. .    .   ."
  \o ".  . .    .   ."
  \o ".  . .    .   ."
  \o "~~~~~~~~~~~~~~~"]

Level31 == [Setup |-> <<13, 17, 0, 1, 4, 0, 1>>, Expected |-> 8, base_map |->
     "................."
  \o ".               ."
  \o ".      ....     ."
  \o ".       ..      ."
  \o ".               ."
  \o ".          T    ."
  \o ".          .    ."
  \o ".        G .    ."
  \o ". *   T  ^      ."
  \o ".     .  ^<     ."
  \o ".     ......    ."
  \o ".       ..      ."
  \o "~~~~~~~~~~~~~~~~~"]

Level32 == [Setup |-> <<10, 14, 0, 2, 2, 1, 1>>, Expected |-> 21, base_map |->
     ".............."
  \o ".            ."
  \o ".         .  ."
  \o ".    .    .  ."
  \o ".  * .   0T  ."
  \o ".    .B< ... ."
  \o ".    T>R . . ."
  \o ". ......##   ."
  \o ".  .  .      ."
  \o "~~~~~~~~~~~~~~"]

Level33 == [Setup |-> <<14, 15, 2, 1, 5, 0, 1>>, Expected |-> 42, base_map |->
     "..............."
  \o ".             ."
  \o ".    *        ."
  \o ".             ."
  \o ".    ###..... ."
  \o ".    O   T. . ."
  \o ".    .##  O . ."
  \o ".        .  . ."
  \o ".    .      . ."
  \o ". #   T     . ."
  \o ".        G< . ."
  \o ".   ##.#..^ . ."
  \o ".   ... ..  . ."
  \o "~~~~~~~~~~~~~~~"]

Level34 == [Setup |-> <<9, 11, 0, 2, 2, 1, 1>>, Expected |-> 17, base_map |->
     "..........."
  \o ".         ."
  \o ".   ..T.. ."
  \o ". * .. .. ."
  \o ".      0  ."
  \o ".  .   >B ."
  \o ".   T  G< ."
  \o ".   ..... ."
  \o "~~~~~~~~~~~"]

Level35 == [Setup |-> <<21, 11, 2, 1, 6, 0, 1>>, Expected |-> 29, base_map |->
     "..........."
  \o ". ....... ."
  \o ".  .....  ."
  \o ".  .....  ."
  \o ".         ."
  \o ".      .  ."
  \o ".      #  ."
  \o ".       O ."
  \o ".    T .  ."
  \o ".      .  ."
  \o ".         ."
  \o ". * >>B   ."
  \o ".   ^.    ."
  \o ".    .    ."
  \o ".     T   ."
  \o ".    ##   ."
  \o ".    O    ."
  \o ".    ..   ."
  \o ".    ..   ."
  \o ".    ..   ."
  \o "~~~~~~~~~~~"]

Level36 == [Setup |-> <<13, 20, 0, 2, 6, 0, 1>>, Expected |-> 29, base_map |->
     "...................."
  \o ".                  ."
  \o ".  ....        ... ."
  \o ".  ....        ... ."
  \o ".   ..             ."
  \o ". .             *  ."
  \o ". .                ."
  \o ". . >>R   #    ... ."
  \o ". T>^G<<     ###   ."
  \o ". ......##T  #     ."
  \o ".   ..   ###.#     ."
  \o ".           .      ."
  \o "~~~~~~~~~~~~~~~~~~~~"]

Level37 == [Setup |-> <<11, 14, 0, 2, 3, 0, 1>>, Expected |-> 16, base_map |->
     ".............."
  \o ".       .    ."
  \o ".       .    ."
  \o ". .....      ."
  \o ". .   .      ."
  \o ".   T   .    ."
  \o ".   .   .    ."
  \o ".   .G<<T  * ."
  \o ".   .>>R.    ."
  \o ".   .....    ."
  \o "~~~~~~~~~~~~~~"]

Level38 == [Setup |-> <<12, 15, 0, 2, 4, 0, 1>>, Expected |-> 28, base_map |->
     "..............."
  \o ".             ."
  \o ".             ."
  \o ".         *   ."
  \o ".  T          ."
  \o ".       G<<<  ."
  \o ".       ..... ."
  \o ".       T .   ."
  \o ".       . .   ."
  \o ".  >>>R ...   ."
  \o ". .......     ."
  \o "~~~~~~~~~~~~~~~"]

Level39 == [Setup |-> <<20, 16, 0, 1, 5, 2, 0>>, Expected |-> 53, base_map |->
     "................"
  \o ".        ..... ."
  \o ".         .... ."
  \o ".         .... ."
  \o ".              ."
  \o ".          *   ."
  \o ".              ."
  \o ".              ."
  \o ".        ....  ."
  \o ".        ....  ."
  \o ".         ...  ."
  \o ".        ....  ."
  \o ".  >>G   ..... ."
  \o ".  ^00    .... ."
  \o ".  ^11   ..... ."
  \o ". ....  ...... ."
  \o ". ...... ..... ."
  \o ".  ....   . .  ."
  \o ".  ...    . .  ."
  \o "~~~~~~~~~~~~~~~~"]

Level40 == [Setup |-> <<16, 22, 0, 2, 5, 2, 0>>, Expected |-> 51, base_map |->
     "......................"
  \o ".                    ."
  \o ".           *        ."
  \o ".                    ."
  \o ".                    ."
  \o ".    .               ."
  \o ".     00             ."
  \o ".    11              ."
  \o ".    .               ."
  \o ".    >v              ."
  \o ".    .>>B            ."
  \o ".   G<<<<            ."
  \o ".    .               ."
  \o ".    .               ."
  \o ".    .               ."
  \o "~~~~~~~~~~~~~~~~~~~~~~"]

Level41 == [Setup |-> <<11, 20, 2, 2, 5, 0, 0>>, Expected |-> 34, base_map |->
     "...................."
  \o ".                  ."
  \o ".     *        .   ."
  \o ".              .   ."
  \o ".                  ."
  \o ".  >B    G<   .    ."
  \o ".  ^O    O^   ..   ."
  \o ".     .       ..   ."
  \o ".     .       .. . ."
  \o ".     .       .. . ."
  \o "~~~~~~~~~~~~~~~~~~~~"]

Level42 == [Setup |-> <<12, 15, 2, 2, 4, 0, 0>>, Expected |-> 42, base_map |->
     "..............."
  \o ".        ##.  ."
  \o ".        ...  ."
  \o ".         .   ."
  \o ".    . >R . * ."
  \o ".  .   G<     ."
  \o ".    O#O.  .  ."
  \o ".   #      .  ."
  \o ".   .. .   .  ."
  \o ".   .. .   .  ."
  \o ".   .. .   .  ."
  \o "~~~~~~~~~~~~~~~"]

Level43 == [Setup |-> <<13, 21, 1, 2, 4, 1, 0>>, Expected |-> 36, base_map |->
     "....................."
  \o ".                   ."
  \o ".   ..              ."
  \o ".   ...             ."
  \o ".   ...  *          ."
  \o ".    .              ."
  \o ".   B<<             ."
  \o ". # >>R #           ."
  \o ".   0O0             ."
  \o ".   000  .          ."
  \o ".   .#.  .          ."
  \o ".   ...  .          ."
  \o "~~~~~~~~~~~~~~~~~~~~~"]

Level44 == [Setup |-> <<12, 14, 2, 2, 4, 0, 1>>, Expected |-> 36, base_map |->
     ".............."
  \o ".            ."
  \o ".    T       ."
  \o ".      O   * ."
  \o ".  #O        ."
  \o ".    #       ."
  \o ".   >R T     ."
  \o ".   G<       ."
  \o ".  #....  #. ."
  \o ".   .. .   . ."
  \o ".    . .   . ."
  \o "~~~~~~~~~~~~~~"]

Level45 == [Setup |-> <<18, 14, 2, 2, 6, 2, 0>>, Expected |-> 77, base_map |->
     ".............."
  \o ".            ."
  \o ".      0     ."
  \o ".     #1     ."
  \o ".      1     ."
  \o ".    . .   * ."
  \o ".    #       ."
  \o ".    #       ."
  \o ". >>R  #B<<  ."
  \o ". ^.##O ..   ."
  \o ".  ..   ..   ."
  \o ".  .     .   ."
  \o ".     O      ."
  \o ".            ."
  \o ".            ."
  \o ".     .      ."
  \o ".    #.#     ."
  \o "~~~~~~~~~~~~~~"]

LevelStar1 == [Setup |-> <<20, 25, 0, 3, 4, 1, 0>>, Expected |-> 75, base_map |->
     "........................."
  \o ".                       ."
  \o ".                       ."
  \o ".                       ."
  \o ".       .#####          ."
  \o ".       .               ."
  \o ".       .               ."
  \o ".       . ####          ."
  \o ". *          #          ."
  \o ".                       ."
  \o ".              B<< .    ."
  \o "....            0^      ."
  \o "....                    ."
  \o "....           G<<  .   ."
  \o "...            R<<<     ."
  \o ".               0       ."
  \o ".              .....    ."
  \o ".              .....    ."
  \o ".               ...     ."
  \o "~~~~~~~~~~~~~~~~~~~~~~~~~"]

LevelStar2 == [Setup |-> <<14, 19, 26, 1, 29, 0, 0>>, Expected |-> 60, base_map |->
     "..................."
  \o ".     ...         ."
  \o ".   .......       ."
  \o ".   . O O ..      ."
  \o ".  ..O.O.O.. ...  ."
  \o ".  .OOOOOOO...... ."
  \o ". .. .O.O. R<< *. ."
  \o ". ..OOOOOOO.....  ."
  \o ". ...O.O.O....    ."
  \o ".   . O O .       ."
  \o ".    ......       ."
  \o ".    ......       ."
  \o ".    ...          ."
  \o "~~~~~~~~~~~~~~~~~~~"]

LevelStar3 == [Setup |-> <<17, 20, 0, 3, 4, 1, 0>>, Expected |-> 63, base_map |->
     "...................."
  \o ".                  ."
  \o ".           .      ."
  \o ".           .      ."
  \o ".           .      ."
  \o ".           .      ."
  \o ". *        000  #  ."
  \o ".          0R0     ."
  \o ".          0^0     ."
  \o ".           ^      ."
  \o ".         >B^   #  ."
  \o ".     .   ^>>G.##  ."
  \o ".    ..    #.##    ."
  \o ".                  ."
  \o ".    ..            ."
  \o ".        .         ."
  \o "~~~~~~~~~~~~~~~~~~~~"]

LevelStar4 == [Setup |-> <<14, 13, 0, 2, 3, 3, 0>>, Expected |-> 44, base_map |->
     "............."
  \o ".     *     ."
  \o ".           ."
  \o ".           ."
  \o ".           ."
  \o ".     #     ."
  \o ".   0   0   ."
  \o ".   1  #1   ."
  \o ".   2   2   ."
  \o ".  G<<#>>R  ."
  \o ". ......... ."
  \o ".   .....   ."
  \o ".    ..     ."
  \o "~~~~~~~~~~~~~"]

LevelStar5 == [Setup |-> <<16, 14, 0, 2, 4, 1, 1>>, Expected |-> 69, base_map |->
     ".............."
  \o ". .......... ."
  \o ".  0..... .  ."
  \o ".  0     *   ."
  \o ".  0 #   .   ."
  \o ".  . ..      ."
  \o ".  .T .      ."
  \o ".  .  .      ."
  \o ".  ..#.      ."
  \o ".    T       ."
  \o ".            ."
  \o ".   >>Rv     ."
  \o ".   ^B<<     ."
  \o ".   ....     ."
  \o ".    ..      ."
  \o "~~~~~~~~~~~~~~"]

LevelStar6 == [Setup |-> <<18, 14, 0, 3, 3, 3, 0>>, Expected |-> 90, base_map |->
     ".............."
  \o ".            ."
  \o ".      *     ."
  \o ".            ."
  \o ".      .     ."
  \o ".  00        ."
  \o ".  .     .   ."
  \o ".  ..    .   ."
  \o ".        ..  ."
  \o ".  11        ."
  \o ".  ..        ."
  \o ".  .. 222..  ."
  \o ".  ..    ..  ."
  \o ".  R<<222    ."
  \o ".  >>G..B<<  ."
  \o ".  ........  ."
  \o ".  .......   ."
  \o "~~~~~~~~~~~~~~"]

LevelVoid == [Setup |-> <<19, 17, 3, 3, 5, 1, 0>>, Expected |-> 52, base_map |->
     "................."
  \o ".    ....       ."
  \o ".     ....      ."
  \o ".     .O.  O    ."
  \o ".     .O.       ."
  \o ".   0           ."
  \o ".   B<          ."
  \o ".  >GR<         ."
  \o ".  ....#        ."
  \o ".  ...          ."
  \o ".   ...      *  ."
  \o ".    .          ."
  \o ".   .      #    ."
  \o ".          .    ."
  \o ".          .    ."
  \o ".          .    ."
  \o ".          .    ."
  \o ".          .    ."
  \o "~~~~~~~~~~~~~~~~~"]

=============================================================================
