SPECIFICATION Spec
CONSTANTS
  Keys = {"a", "Shift", "F6", "F8"}
  Letters = {"a"}
  Buttons = {"left"}
  Toolkits = {"sdl", "gtk"}
  MaxQueue = 2
INVARIANTS
  KeysReleased
  ButtonsAgree
PROPERTIES
  OnlyCapitalsGoUpEarly
  ClicksArrive
