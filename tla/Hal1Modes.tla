----------------------------- MODULE Hal1Modes -----------------------------
(***************************************************************************)
(* The mode tables of CameraContext for a HAL of the first version: the    *)
(* HAL names a mode, the application numbers it.                           *)
(***************************************************************************)
EXTENDS Integers, FiniteSetsExt

WHITE_BALANCE_MODES_MAP ==
  << <<"auto", "AWB_AUTO">>, <<"incandescent", "AWB_INCANDESCENT">>,
     <<"fluorescent", "AWB_FLUORESCENT">>, <<"warm-fluorescent", "AWB_WARM_FLUORESCENT">>,
     <<"daylight", "AWB_DAYLIGHT">>, <<"cloudy-daylight", "AWB_CLOUDY_DAYLIGHT">>,
     <<"twilight", "AWB_TWILIGHT">>, <<"shade", "AWB_SHADE">>, <<"manual", "AWB_OFF">> >>

EFFECT_MODES_MAP ==
  << <<"none", "EFFECT_OFF">>, <<"mono", "EFFECT_MONO">>, <<"negative", "EFFECT_NEGATIVE">>,
     <<"solarize", "EFFECT_SOLARIZE">>, <<"sepia", "EFFECT_SEPIA">>,
     <<"posterize", "EFFECT_POSTERIZE">>, <<"whiteboard", "EFFECT_WHITEBOARD">>,
     <<"blackboard", "EFFECT_BLACKBOARD">>, <<"aqua", "EFFECT_AQUA">> >>

ANTIBANDING_MODES_MAP ==
  << <<"off", "ANTIBANDING_OFF">>, <<"50hz", "ANTIBANDING_50HZ">>,
     <<"60hz", "ANTIBANDING_60HZ">>, <<"auto", "ANTIBANDING_AUTO">> >>

SCENE_MODES_MAP ==
  << <<"auto", "SCENE_DISABLED">>, <<"action", "SCENE_ACTION">>,
     <<"portrait", "SCENE_PORTRAIT">>, <<"landscape", "SCENE_LANDSCAPE">>,
     <<"night", "SCENE_NIGHT">>, <<"night-portrait", "SCENE_NIGHT_PORTRAIT">>,
     <<"theatre", "SCENE_THEATRE">>, <<"beach", "SCENE_BEACH">>, <<"snow", "SCENE_SNOW">>,
     <<"sunset", "SCENE_SUNSET">>, <<"steadyphoto", "SCENE_SUNSET">>,
     <<"fireworks", "SCENE_FIREWORKS">>, <<"sports", "SCENE_SPORTS">>,
     <<"party", "SCENE_PARTY">>, <<"candlelight", "SCENE_CANDLELIGHT">>,
     <<"hdr", "SCENE_HDR">> >>

TRUE_FALSE_MAP == << <<"true", "LOCKED">>, <<"false", "UNLOCKED">> >>

Keys == {"whitebalance", "effect", "antibanding", "scene-mode", "exposure-lock",
         "whitebalance-lock"}
Table(key) == CASE key = "whitebalance" -> WHITE_BALANCE_MODES_MAP
                [] key = "effect" -> EFFECT_MODES_MAP
                [] key = "antibanding" -> ANTIBANDING_MODES_MAP
                [] key = "scene-mode" -> SCENE_MODES_MAP
                [] OTHER -> TRUE_FALSE_MAP

\* lookupAttr: the value of a name, NAME_NOT_FOUND without one.
lookupAttr(table, name) ==
  LET found == {i \in DOMAIN table : table[i][1] = name}
  IN IF found = {} THEN "NAME_NOT_FOUND" ELSE table[Min(found)][2]

\* lookupNameByValue: the first name of a value, NULL without one.
lookupNameByValue(table, value) ==
  LET found == {i \in DOMAIN table : table[i][2] = value}
  IN IF found = {} THEN "NULL" ELSE table[Min(found)][1]
=============================================================================
