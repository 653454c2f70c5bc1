SPECIFICATION Spec
CONSTANTS
  Keys = {"a", "Ctrl"}
  Letters = {"a"}
  Buttons = {"left"}
  Toolkits = {"sdl"}
  MaxQueue = 2
INVARIANT KeysReleased
